---- MODULE Spec2Model ----
(***************************************************************************)
(* TinySolver (include/ceres/tiny_solver.h): the Levenberg-Marquardt loop  *)
(* of TinySolver::Solve, step by step, over exact rational arithmetic.     *)
(*                                                                         *)
(* Scalars are rationals n/d in lowest terms, extended with the IEEE       *)
(* specials the code can produce: d = 0 encodes +Inf (n = 1), -Inf         *)
(* (n = -1) and NaN (n = 0).  Rounding and the sign of zero are not        *)
(* modelled.  A norm is represented by its square.                         *)
(*                                                                         *)
(* A scalar with d < 0 is one whose value the model does not determine:    *)
(* Indeterminate is the content of storage nothing has written, which can  *)
(* be any double, NaN and the infinities included, and every value         *)
(* computed from it; Unrepresented is a value whose numerator or           *)
(* denominator lies beyond MaxMagnitude, which includes the infinity a     *)
(* double overflows to.  A test the code makes on such a scalar can go     *)
(* either way, and the model takes both branches; no value is picked for   *)
(* it.  Whatever is computed from a scalar that is not determined is not   *)
(* determined either: a sum, a product or a quotient of doubles can        *)
(* overflow to an infinity.                                                *)
(***************************************************************************)
EXTENDS Integers, Sequences, FiniteSets, TLC

(***************************************************************************)
(* Bounds of the model.                                                    *)
(***************************************************************************)
MaxIterationsBound == 3   \* the caller's max_iterations ranges over -1..MaxIterationsBound
MaxSolves == 2            \* Solve calls on one solver instance
MaxMagnitude == 1000000000  \* largest numerator and denominator computed exactly

(***************************************************************************)
(* Scalar arithmetic                                                       *)
(***************************************************************************)
Abs(n) == IF n < 0 THEN -n ELSE n

Sign(n) == IF n < 0 THEN -1 ELSE IF n > 0 THEN 1 ELSE 0

RECURSIVE GCD(_, _)
GCD(a, b) == IF b = 0 THEN a ELSE GCD(b, a % b)

\* n/d in lowest terms with d >= 0; d = 0 gives Inf, -Inf or NaN by the sign of n.
Rat(n, d) ==
  IF d = 0 THEN [n |-> Sign(n), d |-> 0]
  ELSE LET g == GCD(Abs(n), Abs(d))
       IN  [n |-> (Sign(d) * n) \div g, d |-> Abs(d) \div g]

Zero == Rat(0, 1)
One == Rat(1, 1)
Two == Rat(2, 1)
NaN == Rat(0, 0)
PosInf == Rat(1, 0)
NegInf == Rat(-1, 0)

\* The content of a Scalar nothing has written, and what is computed from it.
Indeterminate == [n |-> 0, d |-> -1]

\* A value beyond the numerators and denominators of the model: a double the
\* model has no number for, or the infinity a double overflows to.
Unrepresented == [n |-> 0, d |-> -2]

\* 1e-16, the threshold the constructor of SolverParameters stores: a positive
\* number, and its square another, below every positive number the model
\* represents.  Comparisons with it are decided by that; arithmetic on it is
\* beyond the integers of the model.
Epsilon == [n |-> 1, d |-> -3]

\* The model has the value of the scalar a.
Determined(a) == a.d >= 0

\* The outcomes of std::isfinite(a): one of them where the model has the value
\* of a, either one otherwise.
FiniteOutcomes(a) ==
  IF a.d > 0 \/ a = Epsilon THEN {TRUE}
  ELSE IF a.d = 0 THEN {FALSE}
  ELSE BOOLEAN

\* What the model has of a scalar computed from a and b, one of them not
\* determined.
Undetermined(a, b) == IF a.d \in {-1, 0} \/ b.d \in {-1, 0} THEN Indeterminate ELSE Unrepresented

\* An undetermined scalar of which the code has tested the sign: r > 0 if
\* positive, !(r > 0) otherwise.
Tested(r, positive) == [n |-> IF positive THEN 1 ELSE -1, d |-> r.d]

IsNaN(a) == a.d = 0 /\ a.n = 0

\* The product p * q is within MaxMagnitude.
Fits(p, q) == p = 0 \/ q = 0 \/ Abs(p) <= MaxMagnitude \div Abs(q)

\* n/d for d > 0 in lowest terms, if that is within MaxMagnitude.
Reduced(n, d) ==
  LET g == GCD(Abs(n), d)
  IN  IF Abs(n) \div g > MaxMagnitude \/ d \div g > MaxMagnitude
        THEN Unrepresented
        ELSE [n |-> n \div g, d |-> d \div g]

Neg(a) == IF a.d < 0 THEN Undetermined(a, a) ELSE [n |-> -a.n, d |-> a.d]

\* The sum over the least common denominator.
Add(a, b) ==
  IF a.d < 0 \/ b.d < 0 THEN Undetermined(a, b)
  ELSE IF a.d = 0 THEN (IF b.d = 0 /\ b.n # a.n THEN NaN ELSE a)
  ELSE IF b.d = 0 THEN b
  ELSE LET g == GCD(a.d, b.d)
           p == b.d \div g
           q == a.d \div g
       IN  IF Fits(a.n, p) /\ Fits(b.n, q) /\ Fits(q, b.d)
             THEN Reduced(a.n * p + b.n * q, q * b.d)
             ELSE Unrepresented

Sub(a, b) == Add(a, Neg(b))

\* The product, common factors cancelled before multiplying.
Mul(a, b) ==
  IF a.d < 0 \/ b.d < 0 THEN Undetermined(a, b)
  ELSE IF a.d = 0 \/ b.d = 0 THEN Rat(Sign(a.n) * Sign(b.n), 0)
  ELSE LET g1 == GCD(Abs(a.n), b.d)
           g2 == GCD(Abs(b.n), a.d)
           n1 == a.n \div g1
           n2 == b.n \div g2
           d1 == a.d \div g2
           d2 == b.d \div g1
       IN  IF Fits(n1, n2) /\ Fits(d1, d2)
             THEN [n |-> n1 * n2, d |-> d1 * d2]
             ELSE Unrepresented

\* 1 / a; 1 / 0 is +Inf.
Inv(a) == IF a.d < 0 THEN Undetermined(a, a) ELSE Rat(a.d, a.n)

Div(a, b) == Mul(a, Inv(b))

\* n1/d1 < n2/d2 for n1, n2 >= 0 and d1, d2 > 0, by the continued fractions
\* of the two sides: no product is formed.
RECURSIVE LtPositive(_, _, _, _)
LtPositive(n1, d1, n2, d2) ==
  IF n1 \div d1 # n2 \div d2 THEN n1 \div d1 < n2 \div d2
  ELSE IF n2 % d2 = 0 THEN FALSE
  ELSE IF n1 % d1 = 0 THEN TRUE
  ELSE LtPositive(d2, n2 % d2, d1, n1 % d1)

\* a < b as IEEE compares: false when either side is NaN.  Of a scalar that is
\* not determined only a tested sign is known.
Lt(a, b) ==
  IF a = Epsilon THEN b.d >= 0 /\ b.n > 0
  ELSE IF b = Epsilon THEN a.d >= 0 /\ ~IsNaN(a) /\ a.n <= 0
  ELSE IF a.d < 0 \/ b.d < 0 THEN a = Zero /\ b.n = 1
  ELSE IF IsNaN(a) \/ IsNaN(b) THEN FALSE
  ELSE IF a.d = 0 \/ b.d = 0
    THEN (IF a.d = 0 THEN a.n ELSE 0) < (IF b.d = 0 THEN b.n ELSE 0)
  ELSE IF a.n < 0 /\ b.n >= 0 THEN TRUE
  ELSE IF a.n >= 0 /\ b.n <= 0 THEN FALSE
  ELSE IF a.n >= 0 THEN LtPositive(a.n, a.d, b.n, b.d)
  ELSE LtPositive(-b.n, b.d, -a.n, a.d)

Gt(a, b) == Lt(b, a)

\* a <= b: a < b, or the two are the same number.
Le(a, b) == Lt(a, b) \/ ((a.d >= 0 \/ a = Epsilon) /\ ~IsNaN(a) /\ a = b)

\* std::max(a, b) == (a < b) ? b : a
StdMax(a, b) ==
  IF a.d < 0 \/ b.d < 0 THEN Undetermined(a, b) ELSE IF Lt(a, b) THEN b ELSE a

AbsQ(a) == IF a.d < 0 THEN Undetermined(a, a) ELSE [n |-> Abs(a.n), d |-> a.d]

(***************************************************************************)
(* Vectors (sequences of scalars) and matrices.  A matrix is the record of  *)
(* its dimensions and its coefficients, one sequence per row, so that a    *)
(* matrix without rows still has its number of columns.                    *)
(***************************************************************************)
RECURSIVE SumSeq(_)
SumSeq(s) == IF s = << >> THEN Zero ELSE Add(Head(s), SumSeq(Tail(s)))

Dot(a, b) == SumSeq([k \in 1..Len(a) |-> Mul(a[k], b[k])])

SquaredNorm(a) == Dot(a, a)

VecAdd(a, b) == [k \in 1..Len(a) |-> Add(a[k], b[k])]

VecNeg(a) == [k \in 1..Len(a) |-> Neg(a[k])]

VecScale(c, a) == [k \in 1..Len(a) |-> Mul(c, a[k])]

\* Every scalar of the vector w is determined.
AllDetermined(w) == \A k \in 1..Len(w) : Determined(w[k])

Rows(m) == m.rows

Cols(m) == m.cols

\* The matrix whose rows are the sequences of q, all of one length, Len(q) > 0.
MatrixOfRows(q) == [rows |-> Len(q), cols |-> Len(q[1]), coeff |-> q]

Column(m, c) == [r \in 1..Rows(m) |-> m.coeff[r][c]]

\* jacobian_.transpose() * jacobian_
TransposeTimesSelf(m) ==
  [rows |-> Cols(m), cols |-> Cols(m),
   coeff |-> [a \in 1..Cols(m) |->
               [b \in 1..Cols(m) |-> Dot(Column(m, a), Column(m, b))]]]

\* jacobian_.transpose() * error_
TransposeTimesVec(m, e) == [a \in 1..Cols(m) |-> Dot(Column(m, a), e)]

MatVec(m, w) == [r \in 1..Rows(m) |-> Dot(m.coeff[r], w)]

Diagonal(m) == [k \in 1..Rows(m) |-> m.coeff[k][k]]

\* The largest coefficient of s; not determined when one of them is not.
RECURSIVE MaxCoeff(_)
MaxCoeff(s) ==
  IF Len(s) = 1 THEN s[1]
  ELSE LET rest == MaxCoeff(Tail(s))
       IN  IF Head(s).d < 0 \/ rest.d < 0 THEN Undetermined(Head(s), rest)
           ELSE IF Lt(Head(s), rest) THEN rest ELSE Head(s)

\* m.diagonal().array() += c
AddToDiagonal(m, c) ==
  [m EXCEPT !.coeff = [a \in 1..Rows(m) |->
                        [b \in 1..Cols(m) |-> IF a = b THEN Add(@[a][b], c) ELSE @[a][b]]]]

\* a.norm() < b.norm() * t for t finite, decided on the squares.
NormLtScaled(a, t, b) ==
  /\ Gt(t, Zero)
  /\ Gt(SquaredNorm(b), Zero)
  /\ Lt(SquaredNorm(a), Mul(Mul(t, t), SquaredNorm(b)))

\* The square of the threshold t.
Squared(t) == IF t = Epsilon THEN Epsilon ELSE Mul(t, t)

\* The value of a.norm(), kept as its square.
Norm(a) == [sq |-> SquaredNorm(a)]

(***************************************************************************)
(* Cost functions handed to the solver.  Each is a functor meeting the     *)
(* contract bool operator()(parameters, residuals, jacobian): it writes    *)
(* the residuals, writes the Jacobian when one is requested, and returns   *)
(* its success flag.  A failing call of Domain returns before writing.     *)
(*   Shift    r = [x0 - 3, x1 + 2]                (2 residuals, 2 params)  *)
(*   ZeroCol  r = [x0 - 1]                        (1 residual,  2 params)  *)
(*   Clamp    r = max(x0, 7/8)                    (1 residual,  1 param)   *)
(*   Domain   r = x0 - 3, defined for x0 <= 2     (1 residual,  1 param)   *)
(***************************************************************************)
Functions == {"Shift", "ZeroCol", "Clamp", "Domain"}

NumResiduals(f) == IF f = "Shift" THEN 2 ELSE 1

NumParameters(f) == IF f \in {"Shift", "ZeroCol"} THEN 2 ELSE 1

\* What a call of Clamp below 7/8 and a failing call of Domain give.
ClampFlat ==
  [ok |-> TRUE, residuals |-> <<Rat(7, 8)>>, jacobian |-> MatrixOfRows(<<<<Zero>>>>)]

DomainFails ==
  [ok |-> FALSE, residuals |-> << >>, jacobian |-> [rows |-> 0, cols |-> 0, coeff |-> << >>]]

\* One call function(parameters, residuals, jacobian); jacobian = NULL when ~want.
Eval(f, p, want) ==
  CASE f = "Shift" ->
         [ok |-> TRUE,
          residuals |-> <<Sub(p[1], Rat(3, 1)), Add(p[2], Two)>>,
          jacobian |-> MatrixOfRows(<<<<One, Zero>>, <<Zero, One>>>>)]
    [] f = "ZeroCol" ->
         [ok |-> TRUE,
          residuals |-> <<Sub(p[1], One)>>,
          jacobian |-> MatrixOfRows(<<<<One, Zero>>>>)]
    [] f = "Clamp" ->
         IF Lt(p[1], Rat(7, 8))
           THEN ClampFlat
           ELSE [ok |-> TRUE,
                 residuals |-> <<p[1]>>,
                 jacobian |-> MatrixOfRows(<<<<One>>>>)]
    [] f = "Domain" ->
         IF Gt(p[1], Two)
           THEN DomainFails
           ELSE [ok |-> TRUE,
                 residuals |-> <<Sub(p[1], Rat(3, 1))>>,
                 jacobian |-> MatrixOfRows(<<<<One>>>>)]

\* The outcomes of one call at p: at a point that is not determined the test a
\* functor makes on it can go either way.
Evals(f, p) ==
  {Eval(f, p, TRUE)}
    \cup (IF f = "Clamp" /\ ~Determined(p[1]) THEN {ClampFlat} ELSE {})
    \cup (IF f = "Domain" /\ ~Determined(p[1]) THEN {DomainFails} ELSE {})

\* Starting points the caller puts in the parameter buffer.
InitialPoints(f) ==
  CASE f = "Shift" -> {<<Zero, Zero>>, <<Two, One>>}
    [] f = "ZeroCol" -> {<<Zero, Zero>>, <<Zero, Two>>, <<Rat(3, 4), Zero>>}
    [] f = "Clamp" -> {<<Zero>>, <<One>>, <<Two>>}
    [] f = "Domain" -> {<<Zero>>, <<Rat(3, 1)>>}

(***************************************************************************)
(* Solver types                                                            *)
(***************************************************************************)
Status == {"RUNNING", "GRADIENT_TOO_SMALL", "RELATIVE_STEP_SIZE_TOO_SMALL",
           "ERROR_TOO_SMALL", "HIT_MAX_ITERATIONS",
           "FAILED_TO_EVALUATE_COST_FUNCTION", "FAILED_TO_SOLVER_LINEAR_SYSTEM"}

\* What the constructor SolverParameters() stores.
DefaultParameters ==
  [gradient_threshold |-> Epsilon,
   relative_step_threshold |-> Epsilon,
   error_threshold |-> Epsilon,
   initial_scale_factor |-> Rat(1, 1000),
   max_iterations |-> 100]

\* Values the caller stores in the public field params before its first Solve.
SolverParameters ==
  [gradient_threshold : {Zero, Rat(1, 4)},
   relative_step_threshold : {Zero, Rat(1, 8)},
   error_threshold : {Zero, Rat(1, 4)},
   initial_scale_factor : {Zero, One},
   max_iterations : -1..MaxIterationsBound]

\* The parameters of the solves the caller calls Solve again with.
RepeatParameters ==
  {[gradient_threshold |-> Zero, relative_step_threshold |-> Zero,
    error_threshold |-> Zero, initial_scale_factor |-> Zero,
    max_iterations |-> MaxIterationsBound],
   [gradient_threshold |-> Rat(1, 4), relative_step_threshold |-> Rat(1, 8),
    error_threshold |-> Rat(1, 4), initial_scale_factor |-> One,
    max_iterations |-> 1]}

\* Values the caller may store in the public field results.
CallerResults ==
  [error_magnitude : {[sq |-> Zero]},
   gradient_magnitude : {[sq |-> Zero]},
   num_failed_linear_solves : {0},
   iterations : {0},
   status : {"RUNNING"}]

(***************************************************************************)
(* Storage nothing has written yet.  TinySolver declares no constructor,   *)
(* so after construction its results and its arrays hold what the memory   *)
(* held, and so does an array after a resize that changed its size.  A     *)
(* Scalar in that state is Indeterminate and a Status IndeterminateStatus. *)
(* An int in that state is IndeterminateInt, and IndeterminateInt + k is   *)
(* what it holds after k increments: its content plus k.                   *)
(***************************************************************************)
IndeterminateInt == -2147483647

IndeterminateStatus == "INDETERMINATE"

(***************************************************************************)
(* The linear solver, by default Eigen::PartialPivLU (compute and solve),   *)
(* on the matrix a of order 1 or 2.  compute brings the row with the larger *)
(* absolute value in the first column to the top (the first one on a tie),  *)
(* divides the rest of that column by the pivot unless the pivot is zero,   *)
(* and updates the trailing coefficient; solve permutes g, substitutes      *)
(* forwards with the unit lower factor and backwards with the upper one.    *)
(* Each operation is done as IEEE arithmetic does it: for a regular a the   *)
(* result is the solution of a * dx = g, and a zero on the diagonal of the  *)
(* upper factor leaves Inf or NaN in dx.  When the choice of the pivot     *)
(* rests on a scalar that is not determined, so does every entry of dx.    *)
(***************************************************************************)
LinearSolve(a, g) ==
  IF Len(g) = 1
    THEN <<Div(g[1], a.coeff[1][1])>>
    ELSE LET swap == Gt(AbsQ(a.coeff[2][1]), AbsQ(a.coeff[1][1]))
             top == IF swap THEN 2 ELSE 1
             low == IF swap THEN 1 ELSE 2
             pivot == a.coeff[top][1]
             l == IF pivot = Zero THEN a.coeff[low][1] ELSE Div(a.coeff[low][1], pivot)
             u22 == Sub(a.coeff[low][2], Mul(l, a.coeff[top][2]))
             y2 == Sub(g[low], Mul(l, g[top]))
             x2 == Div(y2, u22)
         IN  <<Div(Sub(g[top], Mul(a.coeff[top][2], x2)), pivot), x2>>

\* The vector w has a NaN, an infinity; all its entries are finite numbers.
HasNaN(w) == \E k \in 1..Len(w) : IsNaN(w[k])

HasInf(w) == \E k \in 1..Len(w) : w[k].d = 0 /\ w[k].n # 0

AllFinite(w) == \A k \in 1..Len(w) : w[k].d > 0

\* a.isApprox(b) on determined scalars:
\*   (a - b).squaredNorm() <= prec * prec * min(a.squaredNorm(), b.squaredNorm()).
\* A NaN in a, b or a - b makes the left side NaN and the test false.  With an
\* infinity in a - b the left side is Inf, and the test is Inf <= Inf, true,
\* exactly when both norms are Inf.  On finite numbers, without rounding, the
\* product of the solve either reproduces g exactly or is not finite.
IsApprox(a, b) ==
  LET diff == VecAdd(a, VecNeg(b))
  IN  IF HasNaN(a) \/ HasNaN(b) \/ HasNaN(diff) THEN FALSE
      ELSE IF HasInf(diff) THEN HasInf(a) /\ HasInf(b)
      ELSE a = b

\* The outcomes of (a * dx).isApprox(g) for the solution dx of a * dx = g.  A
\* NaN in dx, in the product or in g fails it, and so does an infinity on one
\* side against finite numbers on the other; otherwise, on scalars that are not
\* determined, it can go either way (a norm that overflows makes it true even
\* for an infinite dx).
IsApproxOutcomes(a, dx, g) ==
  LET p == MatVec(a, dx)
  IN  IF AllDetermined(p) /\ AllDetermined(g) THEN {IsApprox(p, g)}
      ELSE IF HasNaN(p) \/ HasNaN(g) \/ HasNaN(dx) THEN {FALSE}
      ELSE IF (HasInf(p) /\ AllFinite(g)) \/ (HasInf(g) /\ AllFinite(p)) THEN {FALSE}
      ELSE BOOLEAN

(***************************************************************************)
(* State                                                                   *)
(***************************************************************************)
VARIABLES
  function,        \* the cost functor type the solver is instantiated for
  dynR, dynP,      \* NUM_RESIDUALS / NUM_PARAMETERS is Eigen::Dynamic
  params,          \* TinySolver::params
  results,         \* TinySolver::results
  x,               \* the caller's parameter buffer *x_and_min
  dx_, x_new_, g_, error_, f_x_new_, jacobian_, jtj_, jtj_augmented_,
  u, v, i, solved, rho,   \* locals of Solve
  pc,              \* position in Solve: idle, loop, solved, rho, exit
  solves,          \* Solve calls completed on this instance
  calls,           \* history: cost function calls made by the current Solve
  fails,           \* history: linear solves that failed in the current Solve
  eval_failed,     \* history: a cost function call of the current Solve returned false
  resized,         \* history: arrays whose dimensions changed inside the loop
  steps,           \* history: steps the current Solve has taken after its entry
  touched          \* history: the caller has called Update or written params or
                   \* results and has not called Solve since

\* DynamicAutoDiffCostFunction (include/ceres/dynamic_autodiff_cost_function.h):
\* one cost function object and one call of its Evaluate.
VARIABLES
  parameter_block_sizes,  \* CostFunction::parameter_block_sizes()
  num_residuals,          \* CostFunction::num_residuals()
  Stride,                 \* the template argument Stride
  slope_limit,            \* the functor's field: the steepest derivative it accepts
  parameters,             \* caller: parameters[b][j], one sequence per block
  want_jacobians,         \* caller: jacobians != NULL
  residuals,              \* caller's output array residuals[k]
  jacobians,              \* caller's output arrays jacobians[b][k * size_b + j]
  input_jets,             \* Evaluate local: vector<Jet<double, Stride> >
  output_jets,            \* Evaluate local: vector<Jet<double, Stride> >
  num_strides,            \* Evaluate local
  pass,                   \* Evaluate local: the loop counter
  epc,                    \* position in Evaluate: idle, seed, call, copy, residuals,
                          \* return, done, or aborted
  ret,                    \* the value Evaluate returned
  jacobian_writes,        \* history: for each Jacobian entry, the passes that wrote it
  residual_writes,        \* history: for each residual, the writes it received
  functor_calls           \* history: calls of the functor made by this Evaluate

autodiff == <<parameter_block_sizes, num_residuals, Stride, slope_limit, parameters,
              want_jacobians, residuals, jacobians, input_jets, output_jets, num_strides,
              pass, epc, ret, jacobian_writes, residual_writes, functor_calls>>

\* No cost function object: nothing for Evaluate to run on.
NoCostFunction ==
  /\ parameter_block_sizes = << >> /\ num_residuals = 0 /\ Stride = 1 /\ slope_limit = 0
  /\ parameters = << >> /\ want_jacobians = FALSE
  /\ residuals = << >> /\ jacobians = << >>
  /\ input_jets = << >> /\ output_jets = << >>
  /\ num_strides = 0 /\ pass = 0 /\ epc = "none" /\ ret = FALSE
  /\ jacobian_writes = << >> /\ residual_writes = << >> /\ functor_calls = 0

\* ParallelFor (internal/ceres/parallel_for_cxx.cc): one call, the thread that
\* makes it and the worker threads of the context's thread pool.
VARIABLES
  arguments,       \* start, end and num_threads of the call
  shared_state,    \* SharedState, with the fields of its BlockUntilFinished
  task_queue,      \* tasks added to the thread pool that no worker has taken yet
  caller,          \* the calling thread: its position and its locals i and j
  workers,         \* the pool's threads: position and locals i and j of each
  invoked,         \* history: how many times function(j) was entered, for each j
  check_failed     \* history: a CHECK of the call failed and aborted the process

parallel == <<arguments, shared_state, task_queue, caller, workers, invoked, check_failed>>

\* OrderedGroups<T> (include/ceres/ordered_groups.h): one object.
VARIABLES
  group_to_elements_,  \* map<int, set<T> >
  element_to_group_,   \* map<T, int>
  latest,              \* history: for each element passed to a call, the group of
                       \* its latest AddToGroup and whether it is a member since
  crashed              \* history: a CHECK of the object failed and aborted the process

ordering == <<group_to_elements_, element_to_group_, latest, crashed>>

library == <<parallel, ordering>>

\* An empty map.
EmptyMap == [k \in {} |-> 0]

\* No ParallelFor call in the program.
NoParallelFor ==
  /\ arguments = [start |-> 0, end |-> 0, num_threads |-> 1]
  /\ shared_state = [made |-> FALSE, start |-> 0, end |-> 0, num_threads |-> 0, i |-> 0,
                     num_finished |-> 0, num_total |-> 0]
  /\ task_queue = 0
  /\ caller = [pc |-> "none", i |-> 0, j |-> 0]
  /\ workers = << >>
  /\ invoked = EmptyMap
  /\ check_failed = FALSE

\* No OrderedGroups object in the program.
NoOrderedGroups ==
  /\ group_to_elements_ = EmptyMap /\ element_to_group_ = EmptyMap
  /\ latest = EmptyMap /\ crashed = FALSE

NoLibrary == NoParallelFor /\ NoOrderedGroups

scratch == <<dx_, x_new_, g_, error_, f_x_new_, jacobian_, jtj_, jtj_augmented_>>
locals == <<u, v, i, solved, rho>>
history == <<calls, fails, eval_failed, resized, steps>>
instance == <<function, dynR, dynP>>
solver == <<instance, params, results, x, scratch, locals, pc, solves, history, touched>>
vars == <<solver, autodiff, library>>

\* Storage of n (r by c) scalars that nothing has written yet.
FreshVector(n) == [k \in 1..n |-> Indeterminate]
FreshMatrix(r, c) ==
  [rows |-> r, cols |-> c, coeff |-> [a \in 1..r |-> [b \in 1..c |-> Indeterminate]]]

\* The struct Results of an instance nothing has written yet.
FreshResults ==
  [error_magnitude |-> [sq |-> Indeterminate],
   gradient_magnitude |-> [sq |-> Indeterminate],
   num_failed_linear_solves |-> IndeterminateInt,
   iterations |-> IndeterminateInt,
   status |-> IndeterminateStatus]

\* Eigen resize: storage of the same size is kept, otherwise it is replaced.
ResizeVector(w, n) == IF Len(w) = n THEN w ELSE FreshVector(n)
ResizeMatrix(m, r, c) == IF Rows(m) = r /\ Cols(m) = c THEN m ELSE FreshMatrix(r, c)

Dims(m) == <<Rows(m), Cols(m)>>

R == NumResiduals(function)
P == NumParameters(function)

\* Sizes of the members at construction: fixed sizes are allocated in place,
\* dynamic sizes start empty.
StaticR == IF dynR THEN 0 ELSE R
StaticP == IF dynP THEN 0 ELSE P

\* Locals of Solve outside their lifetime.
NoLocals ==
  /\ u = Zero /\ v = Zero /\ i = 0 /\ solved = FALSE /\ rho = Zero

\* A TinySolver after its construction: params is written by the constructor
\* of SolverParameters, nothing else is written.
InitSolver ==
  /\ function \in Functions
  /\ dynR \in BOOLEAN
  /\ dynP \in BOOLEAN
  /\ params = DefaultParameters
  /\ results = FreshResults
  /\ x \in InitialPoints(function)
  /\ dx_ = FreshVector(StaticP)
  /\ x_new_ = FreshVector(StaticP)
  /\ g_ = FreshVector(StaticP)
  /\ error_ = FreshVector(StaticR)
  /\ f_x_new_ = FreshVector(StaticR)
  /\ jacobian_ = FreshMatrix(StaticR, StaticP)
  /\ jtj_ = FreshMatrix(StaticP, StaticP)
  /\ jtj_augmented_ = FreshMatrix(StaticP, StaticP)
  /\ NoLocals
  /\ pc = "idle"
  /\ solves = 0
  /\ calls = 0
  /\ fails = 0
  /\ eval_failed = FALSE
  /\ resized = {}
  /\ steps = 0
  /\ touched = FALSE

\* One solver instance.
Init == InitSolver /\ NoCostFunction /\ NoLibrary

(***************************************************************************)
(* TinySolver::Initialize(num_residuals, num_parameters) and its four      *)
(* dispatching overloads.                                                  *)
(***************************************************************************)
\* The five arrays Initialize leaves: untouched when both sizes are static,
\* resized to the sizes of the function otherwise.
Initialize ==
  IF ~dynR /\ ~dynP
    THEN [error_ |-> error_, f_x_new_ |-> f_x_new_, jacobian_ |-> jacobian_,
          jtj_ |-> jtj_, jtj_augmented_ |-> jtj_augmented_]
    ELSE [error_ |-> ResizeVector(error_, R),
          f_x_new_ |-> ResizeVector(f_x_new_, R),
          jacobian_ |-> ResizeMatrix(jacobian_, R, P),
          jtj_ |-> ResizeMatrix(jtj_, P, P),
          jtj_augmented_ |-> ResizeMatrix(jtj_augmented_, P, P)]

(***************************************************************************)
(* The tests of Update and of the loop.  Each gives the outcomes the test  *)
(* can have: its value when the scalars it compares are determined, and    *)
(* otherwise what every value of the others leaves possible.               *)
(***************************************************************************)
\* The comparison of a test: a < b as the code has it, or a <= b.
Compare(strict, a, b) == IF strict THEN Lt(a, b) ELSE Le(a, b)

\* g.array().abs().maxCoeff() < t
GradientOutcomes(g, t, strict) ==
  IF AllDetermined(g)
    THEN {Compare(strict, MaxCoeff([k \in 1..Len(g) |-> AbsQ(g[k])]), t)}
  ELSE IF ~Compare(strict, Zero, t) THEN {FALSE}
  ELSE IF \E k \in 1..Len(g) :
            Determined(g[k]) /\ ~IsNaN(g[k]) /\ ~Compare(strict, AbsQ(g[k]), t)
    THEN {FALSE}
  ELSE BOOLEAN

\* e.norm() < t, decided on the squares
ErrorOutcomes(e, t, strict) ==
  IF Determined(SquaredNorm(e)) /\ (Determined(Squared(t)) \/ t = Epsilon)
    THEN {Le(Zero, t) /\ Compare(strict, SquaredNorm(e), Squared(t))}
  ELSE IF ~Compare(strict, Zero, t) THEN {FALSE}
  ELSE IF \E k \in 1..Len(e) : Determined(e[k]) /\ ~Compare(strict, AbsQ(e[k]), t)
    THEN {FALSE}
  ELSE BOOLEAN

\* dx.norm() < t * px.norm()
RelativeStepOutcomes(dx, t, px) ==
  IF /\ Determined(SquaredNorm(dx))
     /\ Determined(Mul(Mul(t, t), SquaredNorm(px)))
    THEN {NormLtScaled(dx, t, px)}
  ELSE IF Determined(t) /\ ~Gt(t, Zero) THEN {FALSE}
  ELSE BOOLEAN

\* The value of rho with the outcome of the test rho > 0.
RhoOutcomes(r) == IF Determined(r) THEN {r} ELSE {Tested(r, TRUE), Tested(r, FALSE)}

\* The statuses Update can return for the gradient g and the error e.
StatusOutcomes(g, e, prm, strict) ==
  LET gs == GradientOutcomes(g, prm.gradient_threshold, strict)
      es == ErrorOutcomes(e, prm.error_threshold, strict)
  IN  (IF TRUE \in gs THEN {"GRADIENT_TOO_SMALL"} ELSE {})
        \cup (IF FALSE \in gs /\ TRUE \in es THEN {"ERROR_TOO_SMALL"} ELSE {})
        \cup (IF FALSE \in gs /\ FALSE \in es THEN {"RUNNING"} ELSE {})

\* Update with <= in place of < in both tests.
UpdateOnInclusive(f, prm, px, err, jac) ==
  UNION {LET e1 == VecNeg(IF ev.ok THEN ev.residuals ELSE err)
             j1 == IF ev.ok THEN ev.jacobian ELSE jac
             a1 == TransposeTimesSelf(j1)
             g1 == TransposeTimesVec(j1, e1)
         IN  {[error_ |-> e1, jacobian_ |-> j1, jtj_ |-> a1, g_ |-> g1, ok |-> ev.ok,
               status |-> st] : st \in StatusOutcomes(g1, e1, prm, FALSE)} :
           ev \in Evals(f, px)}

(***************************************************************************)
(* TinySolver::Update(function, x), on the residual and Jacobian storage   *)
(* err and jac.  The flag the cost function returns is not looked at: a    *)
(* call that fails leaves err and jac as they were, unwritten or written   *)
(* by an earlier call, and Update computes from them.  The result is the   *)
(* set of its outcomes, one for each outcome of the call and of the tests. *)
(***************************************************************************)
UpdateOn(f, prm, px, err, jac) ==
  UNION {LET e1 == VecNeg(IF ev.ok THEN ev.residuals ELSE err)
             j1 == IF ev.ok THEN ev.jacobian ELSE jac
             a1 == TransposeTimesSelf(j1)
             g1 == TransposeTimesVec(j1, e1)
         IN  {[error_ |-> e1, jacobian_ |-> j1, jtj_ |-> a1, g_ |-> g1, ok |-> ev.ok,
               status |-> st] : st \in StatusOutcomes(g1, e1, prm, TRUE)} :
           ev \in Evals(f, px)}

\* Update on this solver instance.
Update(px, err, jac) == UpdateOn(function, params, px, err, jac)

(***************************************************************************)
(* TinySolver::Solve, one action per stretch of straight-line code.        *)
(***************************************************************************)
\* The names of the arrays an assignment gave new dimensions.
ResizedVector(name, old, new) == IF Len(old) # Len(new) THEN {name} ELSE {}
ResizedMatrix(name, old, new) == IF Dims(old) # Dims(new) THEN {name} ELSE {}

\* The loop condition with <= for <: one iteration too many.
LoopConditionInclusive == results.status = "RUNNING" /\ i <= params.max_iterations

\* The loop condition: results.status == RUNNING && i < params.max_iterations.
LoopCondition == results.status = "RUNNING" /\ i < params.max_iterations

\* The accepted-step factor with a square for the cube: u * max(1/3, 1 - tmp * tmp).
AcceptedScaleSquared(uu, r) ==
  LET tmp == Sub(Mul(Two, r), One)
  IN  Mul(uu, StdMax(Rat(1, 3), Sub(One, Mul(tmp, tmp))))

\* u * std::max(1 / 3., 1 - tmp * tmp * tmp) with tmp = 2 * rho - 1, without
\* rounding.  In doubles the factor can round to one of its bounds where the
\* exact value lies strictly inside them: to 1 for rho just below 1/2 (the
\* cube is below half an ulp of 1) and to 2 for rho next to 0.
AcceptedScale(uu, r) ==
  LET tmp == Sub(Mul(Two, r), One)
  IN  Mul(uu, StdMax(Rat(1, 3), Sub(One, Mul(Mul(tmp, tmp), tmp))))

\* u += v for u *= v.
RejectedScaleAdds(uu, vv) == Add(uu, vv)

\* u *= v, without rounding.  A product beyond MaxMagnitude, which is where the
\* +Inf a double overflows to lies, is Unrepresented.
RejectedScale(uu, vv) == Mul(uu, vv)

\* Entry of Solve up to the loop: Initialize, the first Update, u, v and i.
\* The caller calls Solve on one of the starting points, with parameters it
\* has stored itself, and calls it again after solves with RepeatParameters.
SolveBegin ==
  /\ pc = "idle"
  /\ solves < MaxSolves
  /\ x \in InitialPoints(function)
  /\ params \in (IF solves = 0 THEN SolverParameters ELSE RepeatParameters)
  /\ \E up \in Update(x, Initialize.error_, Initialize.jacobian_) :
       /\ error_' = up.error_
       /\ jacobian_' = up.jacobian_
       /\ jtj_' = up.jtj_
       /\ g_' = up.g_
       /\ f_x_new_' = Initialize.f_x_new_
       /\ jtj_augmented_' = Initialize.jtj_augmented_
       /\ results' = [results EXCEPT !.status = up.status]
       /\ u' = Mul(params.initial_scale_factor, MaxCoeff(Diagonal(up.jtj_)))
       /\ eval_failed' = ~up.ok
  /\ v' = Two
  /\ i' = 0
  /\ pc' = "loop"
  /\ calls' = 1
  /\ fails' = 0
  /\ resized' = {}
  /\ steps' = 0
  /\ touched' = FALSE
  /\ UNCHANGED <<library, autodiff, instance, params, x, dx_, x_new_, solved, rho, solves>>

\* Loop body up to the test of solved: the damped system and its solution.
FormAndSolve ==
  /\ pc = "loop"
  /\ LoopCondition
  /\ LET aug == AddToDiagonal(jtj_, u)
         dx == LinearSolve(aug, g_)
     IN  /\ jtj_augmented_' = aug
         /\ solved' \in IsApproxOutcomes(aug, dx, g_)
         /\ dx_' = dx
         /\ resized' = resized \cup ResizedMatrix("jtj_augmented_", jtj_augmented_, aug)
                               \cup ResizedVector("dx_", dx_, dx)
  /\ pc' = "solved"
  /\ steps' = steps + 1
  /\ UNCHANGED <<library, autodiff, instance, params, touched, results, x, x_new_, g_, error_, f_x_new_, jacobian_, jtj_,
                 u, v, i, rho, solves, calls, fails, eval_failed>>

\* !solved treated as fatal: the failure is counted and the status set to
\* FAILED_TO_SOLVER_LINEAR_SYSTEM, which ends the loop.
FailedLinearSolveFatal ==
  /\ pc = "solved"
  /\ ~solved
  /\ results' = [results EXCEPT !.num_failed_linear_solves = @ + 1,
                                !.status = "FAILED_TO_SOLVER_LINEAR_SYSTEM"]
  /\ fails' = fails + 1
  /\ u' = RejectedScale(u, v)
  /\ v' = Mul(v, Two)
  /\ i' = i + 1
  /\ pc' = "loop"
  /\ steps' = steps + 1
  /\ UNCHANGED <<library, autodiff, instance, params, touched, x, scratch, solved, rho, solves, calls, eval_failed, resized>>

\* !solved: count the failure, then the code after the if: u *= v; v *= 2; ++i.
FailedLinearSolve ==
  /\ pc = "solved"
  /\ ~solved
  /\ results' = [results EXCEPT !.num_failed_linear_solves = @ + 1]
  /\ fails' = fails + 1
  /\ u' = RejectedScale(u, v)
  /\ v' = Mul(v, Two)
  /\ i' = i + 1
  /\ pc' = "loop"
  /\ steps' = steps + 1
  /\ UNCHANGED <<library, autodiff, instance, params, touched, x, scratch, solved, rho, solves, calls, eval_failed, resized>>

\* The break taken as `continue` would be: the iteration is counted.
RelativeStepBreakCounted ==
  /\ pc = "solved"
  /\ solved
  /\ TRUE \in RelativeStepOutcomes(dx_, params.relative_step_threshold, x)
  /\ results' = [results EXCEPT !.status = "RELATIVE_STEP_SIZE_TOO_SMALL"]
  /\ i' = i + 1
  /\ pc' = "exit"
  /\ steps' = steps + 1
  /\ UNCHANGED <<library, autodiff, instance, params, touched, x, scratch, u, v, solved, rho, solves, calls,
                 fails, eval_failed, resized>>

\* dx_.norm() < params.relative_step_threshold * x.norm(): break.
RelativeStepBreak ==
  /\ pc = "solved"
  /\ solved
  /\ TRUE \in RelativeStepOutcomes(dx_, params.relative_step_threshold, x)
  /\ results' = [results EXCEPT !.status = "RELATIVE_STEP_SIZE_TOO_SMALL"]
  /\ pc' = "exit"
  /\ steps' = steps + 1
  /\ UNCHANGED <<library, autodiff, instance, params, touched, x, scratch, locals, solves, calls, fails, eval_failed, resized>>

\* x_new_ = x + dx_, the residual-only call at x_new_, and rho with its test.
\* A call that fails leaves f_x_new_ as it was.
TrialStep ==
  /\ pc = "solved"
  /\ solved
  /\ FALSE \in RelativeStepOutcomes(dx_, params.relative_step_threshold, x)
  /\ LET xn == VecAdd(x, dx_)
     IN  /\ x_new_' = xn
         /\ \E ev \in Evals(function, xn) :
              /\ f_x_new_' = (IF ev.ok THEN ev.residuals ELSE f_x_new_)
              /\ rho' \in RhoOutcomes(Div(Sub(SquaredNorm(error_), SquaredNorm(f_x_new_')),
                                          Dot(dx_, VecAdd(VecScale(u, dx_), g_))))
              /\ eval_failed' = (eval_failed \/ ~ev.ok)
         /\ resized' = resized \cup ResizedVector("x_new_", x_new_, xn)
  /\ calls' = calls + 1
  /\ steps' = steps + 1
  /\ pc' = "rho"
  /\ UNCHANGED <<library, autodiff, instance, params, touched, results, x, dx_, g_, error_, jacobian_, jtj_, jtj_augmented_,
                 u, v, i, solved, solves, fails>>

\* rho > 0: x = x_new_, Update at the new x, the new u, v = 2, continue.
AcceptStep ==
  /\ pc = "rho"
  /\ Gt(rho, Zero)
  /\ x' = x_new_
  /\ \E up \in Update(x_new_, error_, jacobian_) :
       /\ error_' = up.error_
       /\ jacobian_' = up.jacobian_
       /\ jtj_' = up.jtj_
       /\ g_' = up.g_
       /\ results' = [results EXCEPT !.status = up.status]
       /\ eval_failed' = (eval_failed \/ ~up.ok)
       /\ resized' = resized \cup ResizedVector("error_", error_, up.error_)
                             \cup ResizedMatrix("jacobian_", jacobian_, up.jacobian_)
                             \cup ResizedMatrix("jtj_", jtj_, up.jtj_)
                             \cup ResizedVector("g_", g_, up.g_)
  /\ u' = AcceptedScale(u, rho)
  /\ v' = Two
  /\ i' = i + 1
  /\ calls' = calls + 1
  /\ steps' = steps + 1
  /\ pc' = "loop"
  /\ UNCHANGED <<library, autodiff, instance, params, touched, dx_, x_new_, f_x_new_, jtj_augmented_, solved, rho, solves, fails>>

\* !(rho > 0) with x = x_new_ hoisted out of the if: the trial point is kept.
RejectStepKeepsTrialPoint ==
  /\ pc = "rho"
  /\ ~Gt(rho, Zero)
  /\ x' = x_new_
  /\ u' = RejectedScale(u, v)
  /\ v' = Mul(v, Two)
  /\ i' = i + 1
  /\ pc' = "loop"
  /\ steps' = steps + 1
  /\ UNCHANGED <<library, autodiff, instance, params, touched, results, scratch, solved, rho, solves, calls, fails, eval_failed,
                 resized>>

\* !(rho > 0): the code after the if: u *= v; v *= 2; ++i.
RejectStep ==
  /\ pc = "rho"
  /\ ~Gt(rho, Zero)
  /\ u' = RejectedScale(u, v)
  /\ v' = Mul(v, Two)
  /\ i' = i + 1
  /\ pc' = "loop"
  /\ steps' = steps + 1
  /\ UNCHANGED <<library, autodiff, instance, params, touched, results, x, scratch, solved, rho, solves, calls, fails, eval_failed,
                 resized>>

\* After the loop without the test of RUNNING: the status is left as it is.
SolveEndKeepsStatus ==
  /\ \/ pc = "loop" /\ ~LoopCondition
     \/ pc = "exit"
  /\ results' = [results EXCEPT
                   !.error_magnitude = Norm(error_),
                   !.gradient_magnitude = Norm(g_),
                   !.iterations = i]
  /\ pc' = "idle"
  /\ solves' = solves + 1
  /\ u' = Zero /\ v' = Zero /\ i' = 0 /\ solved' = FALSE /\ rho' = Zero
  /\ steps' = steps + 1
  /\ UNCHANGED <<library, autodiff, instance, params, touched, x, scratch, calls, fails, eval_failed, resized>>

\* After the loop: HIT_MAX_ITERATIONS if still RUNNING, the magnitudes, the
\* iteration count, return.
SolveEnd ==
  /\ \/ pc = "loop" /\ ~LoopCondition
     \/ pc = "exit"
  /\ results' = [results EXCEPT
                   !.status = IF @ = "RUNNING" THEN "HIT_MAX_ITERATIONS" ELSE @,
                   !.error_magnitude = Norm(error_),
                   !.gradient_magnitude = Norm(g_),
                   !.iterations = i]
  /\ pc' = "idle"
  /\ solves' = solves + 1
  /\ u' = Zero /\ v' = Zero /\ i' = 0 /\ solved' = FALSE /\ rho' = Zero
  /\ steps' = steps + 1
  /\ UNCHANGED <<library, autodiff, instance, params, touched, x, scratch, calls, fails, eval_failed, resized>>

\* Between two Solve calls the caller puts a new starting point in its buffer.
CallerSetsParameters ==
  /\ pc = "idle"
  /\ solves \in 1..(MaxSolves - 1)
  /\ \E p \in InitialPoints(function) : x' = p
  /\ UNCHANGED <<library, autodiff, instance, params, touched, results, scratch, locals, pc, solves, history>>

\* The caller uses the public members of an idle solver: before its first
\* Solve it stores the parameters of the solve in params, and before a Solve
\* it may write results or call Update; the model follows one such use.
\*
\* The caller stores new values in the public field params.
CallerSetsParams ==
  /\ pc = "idle"
  /\ solves = 0
  /\ \E prm \in SolverParameters : prm # params /\ params' = prm
  /\ UNCHANGED <<library, autodiff, instance, results, x, scratch, locals, pc, solves,
                 history, touched>>

\* Before a Solve the caller stores values in the public field results.
CallerSetsResults ==
  /\ pc = "idle"
  /\ solves < MaxSolves
  /\ ~touched
  /\ \E r \in CallerResults : r # results /\ results' = r
  /\ touched' = TRUE
  /\ UNCHANGED <<library, autodiff, instance, params, x, scratch, locals, pc, solves,
                 history>>

\* Before a Solve the caller calls the public member Update on storage of the
\* problem's size, at a point of its choice, and keeps the status it returns
\* to itself: results is not written.
CallerCallsUpdate ==
  /\ pc = "idle"
  /\ solves < MaxSolves
  /\ ~touched
  /\ Len(error_) = R /\ Dims(jacobian_) = <<R, P>>
  /\ \E p \in InitialPoints(function) \cup {x} :
       \E up \in Update(p, error_, jacobian_) :
         /\ error_' = up.error_
         /\ jacobian_' = up.jacobian_
         /\ jtj_' = up.jtj_
         /\ g_' = up.g_
  /\ touched' = TRUE
  /\ UNCHANGED <<library, autodiff, instance, params, results, x, dx_, x_new_, f_x_new_,
                 jtj_augmented_, locals, pc, solves, history>>

\* The steps of Solve.
SolveNext ==
  \/ SolveBegin
  \/ FormAndSolve
  \/ FailedLinearSolve
  \/ RelativeStepBreak
  \/ TrialStep
  \/ AcceptStep
  \/ RejectStep
  \/ SolveEnd

Next ==
  \/ SolveNext
  \/ CallerSetsParameters
  \/ CallerSetsParams
  \/ CallerSetsResults
  \/ CallerCallsUpdate

Spec == Init /\ [][Next]_vars

(***************************************************************************)
(* DynamicAutoDiffCostFunction<CostFunctor, Stride>::Evaluate              *)
(* (include/ceres/dynamic_autodiff_cost_function.h).  Values are integers, *)
(* so the arithmetic of the jets is exact.                                 *)
(***************************************************************************)
MaxBlocks == 3        \* parameter blocks of one cost function
MaxBlockSize == 3     \* parameters in one block
MaxParameters == 4    \* parameters of one cost function, all blocks together
MaxStride == 3        \* the template argument Stride ranges over 1..MaxStride
MaxResiduals == 2     \* num_residuals ranges over 1..MaxResiduals

\* What the caller's output arrays hold before Evaluate writes them.
Stale == -99

RECURSIVE SumInts(_)
SumInts(q) == IF q = << >> THEN 0 ELSE Head(q) + SumInts(Tail(q))

RECURSIVE Flatten(_)
Flatten(q) == IF q = << >> THEN << >> ELSE Head(q) \o Flatten(Tail(q))

RECURSIVE Pow2(_)
Pow2(n) == IF n = 0 THEN 1 ELSE 2 * Pow2(n - 1)

RECURSIVE FloorLog2(_)
FloorLog2(n) == IF n < 2 THEN 0 ELSE 1 + FloorLog2(n \div 2)

\* The conversion of the int n >= 0 to float: 24 significant bits, round to
\* nearest, ties to even.
FloatOf(n) ==
  IF n < Pow2(24) THEN n
  ELSE LET m == Pow2(FloorLog2(n) - 23)
           lo == (n \div m) * m
           r == n - lo
       IN  IF 2 * r < m THEN lo
           ELSE IF 2 * r > m THEN lo + m
           ELSE IF (n \div m) % 2 = 0 THEN lo ELSE lo + m

\* ceil of the float quotient pf / sf of two floats with integer values, sf > 0:
\* the quotient is rounded to 24 significant bits before ceil sees it.
CeilOfFloatQuotient(pf, sf) ==
  LET t == pf \div sf
      rem == pf % sf
  IN  IF rem = 0 THEN t
      ELSE IF t = 0 THEN 1
      ELSE LET e == FloorLog2(t)
           IN  IF e <= 22
                 THEN (IF rem <= sf \div Pow2(24 - e) THEN t ELSE t + 1)
                 ELSE LET m == Pow2(e - 23)
                          lo == (t \div m) * m
                          twice == 2 * ((t - lo) * sf + rem)
                      IN  IF twice < m * sf THEN lo
                          ELSE IF twice > m * sf THEN lo + m
                          ELSE IF (t \div m) % 2 = 0 THEN lo ELSE lo + m

\* int(ceil(num_parameters / float(Stride)))
NumStrides(n, w) == CeilOfFloatQuotient(FloatOf(n), FloatOf(w))

\* Jet<double, N>: a value a and N derivative slots v.  A plain double is the
\* jet with no slot.
JetOf(c, n) == [a |-> c, v |-> [d \in 1..n |-> 0]]

JetAdd(f, g) == [a |-> f.a + g.a, v |-> [d \in 1..Len(f.v) |-> f.v[d] + g.v[d]]]

JetSub(f, g) == [a |-> f.a - g.a, v |-> [d \in 1..Len(f.v) |-> f.v[d] - g.v[d]]]

\* (a1, v1) * (a2, v2) = (a1 * a2, a1 * v2 + a2 * v1)
JetMul(f, g) ==
  [a |-> f.a * g.a, v |-> [d \in 1..Len(f.v) |-> f.a * g.v[d] + g.a * f.v[d]]]

\* The smallest parameter value the cost functor accepts.
DomainFloor == -1

\* The cost functor, templated on the scalar type T: residual k (from 1) is the
\* sum over the parameters c of T(k) * x_c * x_next(c) - x_c, next being the
\* following parameter, cyclically.  It returns false when a derivative it
\* computed is steeper than its limit or a parameter value is below DomainFloor.
RECURSIVE ResidualTerms(_, _, _, _)
ResidualTerms(k, q, c, n) ==
  IF c > Len(q) THEN JetOf(0, n)
  ELSE JetAdd(JetSub(JetMul(JetOf(k, n), JetMul(q[c], q[(c % Len(q)) + 1])), q[c]),
              ResidualTerms(k, q, c + 1, n))

Functor(q, nres, n, lim) ==
  LET out == [k \in 1..nres |-> ResidualTerms(k, q, 1, n)]
  IN  [ok |-> /\ \A k \in 1..nres : \A d \in 1..n : Abs(out[k].v[d]) <= lim
              /\ \A c \in 1..Len(q) : q[c].a >= DomainFloor,
       out |-> out]

\* The exact partial derivative of residual k by parameter c at the values w.
Partial(k, c, w) ==
  LET n == Len(w)
  IN  k * (w[(c % n) + 1] + w[((c + n - 2) % n) + 1]) - 1

\* The parameter cursor (from 0) of parameter j (from 0) of block b (from 1).
Cursor(sizes, b, j) == SumInts(SubSeq(sizes, 1, b - 1)) + j

\* The seeding with the flat index for the slot: parameter c gets slot c, not
\* slot c - start.
SeedJetsAbsoluteSlot(q, n, start, end) ==
  [c \in 1..Len(q) |->
     [a |-> q[c].a,
      v |-> [d \in 1..n |->
               IF c - 1 >= start /\ c - 1 < end /\ d - 1 = c - 1 THEN 1 ELSE 0]]]

\* Lines 131-146: the input jets of the pass with the slice [start, end).
SeedJets(q, n, start, end) ==
  [c \in 1..Len(q) |->
     [a |-> q[c].a,
      v |-> [d \in 1..n |->
               IF c - 1 >= start /\ c - 1 < end /\ d - 1 = c - 1 - start THEN 1 ELSE 0]]]

\* Lines 153-164: the Jacobian arrays after the copy of the slice [start, end).
CopyJacobianPieces(jac, sizes, nres, out, start, end) ==
  [b \in 1..Len(sizes) |->
     [e \in 1..Len(jac[b]) |->
        LET k == (e - 1) \div sizes[b]
            j == (e - 1) % sizes[b]
            c == Cursor(sizes, b, j)
        IN  IF c >= start /\ c < end THEN out[k + 1].v[c - start + 1] ELSE jac[b][e]]]

\* The passes that wrote each entry, after the copy of pass p.
NoteJacobianWrites(wr, sizes, start, end, p) ==
  [b \in 1..Len(sizes) |->
     [e \in 1..Len(wr[b]) |->
        LET c == Cursor(sizes, b, (e - 1) % sizes[b])
        IN  IF c >= start /\ c < end THEN Append(wr[b][e], p) ELSE wr[b][e]]]

StdMin(a, b) == IF b < a THEN b ELSE a

\* Evaluate with Jacobians as a function of its inputs, for the width w: the
\* passes from p on, given the arrays jac and res so far.
RECURSIVE EvaluatePasses(_, _, _, _, _, _, _, _)
EvaluatePasses(sizes, nres, lim, q, w, p, jac, res) ==
  LET np == SumInts(sizes)
      n == NumStrides(np, w)
      start == p * w
      end == StdMin((p + 1) * w, np)
      call == Functor(SeedJets(q, w, start, end), nres, w, lim)
  IN  IF p >= n THEN [ret |-> TRUE, jacobians |-> jac, residuals |-> res]
      ELSE IF ~call.ok THEN [ret |-> FALSE, jacobians |-> jac, residuals |-> res]
      ELSE EvaluatePasses(sizes, nres, lim, q, w, p + 1,
                          CopyJacobianPieces(jac, sizes, nres, call.out, start, end),
                          IF p = n - 1 THEN [k \in 1..nres |-> call.out[k].a] ELSE res)

\* Evaluate(parameters, residuals, jacobians) on a cost function with the
\* batch width w, from stale output arrays.
EvaluateWithWidth(sizes, nres, lim, prm, w) ==
  EvaluatePasses(sizes, nres, lim, [c \in 1..SumInts(sizes) |-> JetOf(Flatten(prm)[c], w)],
                 w, 0,
                 [b \in 1..Len(sizes) |-> [e \in 1..(nres * sizes[b]) |-> Stale]],
                 [k \in 1..nres |-> Stale])

\* Sequences of at most n block sizes.
RECURSIVE SizeLists(_)
SizeLists(n) ==
  IF n = 0 THEN {<< >>}
  ELSE SizeLists(n - 1) \cup
       {Append(q, z) : q \in {r \in SizeLists(n - 1) : Len(r) = n - 1}, z \in 0..MaxBlockSize}

\* Parameter values: first + cursor, block by block.
Ramp(sizes, first) ==
  [b \in 1..Len(sizes) |-> [j \in 1..sizes[b] |-> first + Cursor(sizes, b, j - 1)]]

\* A cost function object with its sizes set, and the arguments of one call.
\* Parameter values: first - cursor, block by block.
Fall(sizes, first) ==
  [b \in 1..Len(sizes) |-> [j \in 1..sizes[b] |-> first - Cursor(sizes, b, j - 1)]]

CostFunctionInit ==
  /\ parameter_block_sizes \in {q \in SizeLists(MaxBlocks) : SumInts(q) <= MaxParameters}
  /\ num_residuals \in 1..MaxResiduals
  /\ Stride \in 1..MaxStride
  /\ slope_limit \in {-1, 4, 6, 100}
  /\ parameters \in {Ramp(parameter_block_sizes, 1), Ramp(parameter_block_sizes, 2),
                     Fall(parameter_block_sizes, MaxParameters)}
  /\ want_jacobians \in BOOLEAN
  /\ residuals = [k \in 1..num_residuals |-> Stale]
  /\ jacobians = [b \in 1..Len(parameter_block_sizes) |->
                    [e \in 1..(num_residuals * parameter_block_sizes[b]) |-> Stale]]
  /\ input_jets = << >> /\ output_jets = << >>
  /\ num_strides = 0 /\ pass = 0 /\ epc = "idle" /\ ret = FALSE
  /\ jacobian_writes = [b \in 1..Len(parameter_block_sizes) |->
                          [e \in 1..(num_residuals * parameter_block_sizes[b]) |-> << >>]]
  /\ residual_writes = [k \in 1..num_residuals |-> << >>]
  /\ functor_calls = 0

\* Lines 105-107: jacobians == NULL, the functor is called on plain doubles and
\* writes the caller's residuals.
EvaluateResidualsOnly ==
  /\ epc = "idle"
  /\ ~want_jacobians
  /\ LET call == Functor([c \in 1..SumInts(parameter_block_sizes) |->
                            JetOf(Flatten(parameters)[c], 0)],
                         num_residuals, 0, slope_limit)
     IN  /\ residuals' = [k \in 1..num_residuals |-> call.out[k].a]
         /\ residual_writes' = [k \in 1..num_residuals |->
                                  Append(residual_writes[k], [pass |-> 0, calls |-> 1])]
         /\ ret' = call.ok
  /\ functor_calls' = 1
  /\ epc' = "done"
  /\ UNCHANGED <<parameter_block_sizes, num_residuals, Stride, slope_limit, parameters,
                 want_jacobians, jacobians, input_jets, output_jets, num_strides, pass,
                 jacobian_writes, solver, library>>

\* A parameter block starts at the end of input_jets: a block of size 0 with no
\* parameter after it.  Line 121 takes the address of
\* input_jets[input_jets.size()] for it, which is outside the vector.
BlockStartsAtEnd(sizes) ==
  \E b \in 1..Len(sizes) : Cursor(sizes, b, 0) = SumInts(sizes)

\* Lines 109-130: the scratch jets with the parameter values, num_strides,
\* pass = 0.  The element access outside the vector is undefined: the call
\* goes on as if the address were one of the vector, or the process is
\* aborted by the bounds check of the library.
EvaluateBegin ==
  /\ epc = "idle"
  /\ want_jacobians
  /\ \/ /\ input_jets' = [c \in 1..SumInts(parameter_block_sizes) |->
                            JetOf(Flatten(parameters)[c], Stride)]
        /\ output_jets' = [k \in 1..num_residuals |-> JetOf(0, Stride)]
        /\ num_strides' = NumStrides(SumInts(parameter_block_sizes), Stride)
        /\ pass' = 0
        /\ epc' = IF 0 < num_strides' THEN "seed" ELSE "return"
     \/ /\ BlockStartsAtEnd(parameter_block_sizes)
        /\ epc' = "aborted"
        /\ UNCHANGED <<input_jets, output_jets, num_strides, pass>>
  /\ UNCHANGED <<parameter_block_sizes, num_residuals, Stride, slope_limit, parameters,
                 want_jacobians, residuals, jacobians, ret, jacobian_writes,
                 residual_writes, functor_calls, solver, library>>

\* Lines 131-146: zero every derivative slot and seed the active slice.
SeedPass ==
  /\ epc = "seed"
  /\ input_jets' = SeedJets(input_jets, Stride, pass * Stride,
                            StdMin((pass + 1) * Stride, SumInts(parameter_block_sizes)))
  /\ epc' = "call"
  /\ UNCHANGED <<parameter_block_sizes, num_residuals, Stride, slope_limit, parameters,
                 want_jacobians, residuals, jacobians, output_jets, num_strides, pass, ret,
                 jacobian_writes, residual_writes, functor_calls, solver, library>>

\* A failing call that hands the residuals it computed to the caller before
\* the false return.
CallFunctorWritesResidualsOnFailure ==
  /\ epc = "call"
  /\ LET call == Functor(input_jets, num_residuals, Stride, slope_limit)
     IN  /\ output_jets' = call.out
         /\ epc' = IF call.ok THEN "copy" ELSE "done"
         /\ ret' = FALSE
         /\ residuals' = IF call.ok THEN residuals
                         ELSE [k \in 1..num_residuals |-> call.out[k].a]
         /\ residual_writes' =
              IF call.ok THEN residual_writes
              ELSE [k \in 1..num_residuals |->
                      Append(residual_writes[k], [pass |-> pass, calls |-> functor_calls + 1])]
  /\ functor_calls' = functor_calls + 1
  /\ UNCHANGED <<parameter_block_sizes, num_residuals, Stride, slope_limit, parameters,
                 want_jacobians, jacobians, input_jets, num_strides, pass,
                 jacobian_writes, solver, library>>

\* Lines 148-150: the functor call of the pass; false returns false at once.
CallFunctor ==
  /\ epc = "call"
  /\ LET call == Functor(input_jets, num_residuals, Stride, slope_limit)
     IN  /\ output_jets' = call.out
         /\ epc' = IF call.ok THEN "copy" ELSE "done"
         /\ ret' = FALSE
  /\ functor_calls' = functor_calls + 1
  /\ UNCHANGED <<parameter_block_sizes, num_residuals, Stride, slope_limit, parameters,
                 want_jacobians, residuals, jacobians, input_jets, num_strides, pass,
                 jacobian_writes, residual_writes, solver, library>>

\* Lines 152-164: copy the pieces of the Jacobian into their final place.
CopyJacobian ==
  /\ epc = "copy"
  /\ LET start == pass * Stride
         end == StdMin((pass + 1) * Stride, SumInts(parameter_block_sizes))
     IN  /\ jacobians' = CopyJacobianPieces(jacobians, parameter_block_sizes, num_residuals,
                                            output_jets, start, end)
         /\ jacobian_writes' = NoteJacobianWrites(jacobian_writes, parameter_block_sizes,
                                                  start, end, pass)
  /\ epc' = "residuals"
  /\ UNCHANGED <<parameter_block_sizes, num_residuals, Stride, slope_limit, parameters,
                 want_jacobians, residuals, input_jets, output_jets, num_strides, pass, ret,
                 residual_writes, functor_calls, solver, library>>

\* A copy of the residuals in every pass.
CopyResidualsEveryPass ==
  /\ epc = "residuals"
  /\ residuals' = [k \in 1..num_residuals |-> output_jets[k].a]
  /\ residual_writes' =
       [k \in 1..num_residuals |->
          Append(residual_writes[k], [pass |-> pass, calls |-> functor_calls])]
  /\ pass' = pass + 1
  /\ epc' = IF pass + 1 < num_strides THEN "seed" ELSE "return"
  /\ UNCHANGED <<parameter_block_sizes, num_residuals, Stride, slope_limit, parameters,
                 want_jacobians, jacobians, input_jets, output_jets, num_strides, ret,
                 jacobian_writes, functor_calls, solver, library>>

\* Lines 166-173: the residuals are copied in the last pass only; ++pass.
CopyResiduals ==
  /\ epc = "residuals"
  /\ IF pass = num_strides - 1
       THEN /\ residuals' = [k \in 1..num_residuals |-> output_jets[k].a]
            /\ residual_writes' =
                 [k \in 1..num_residuals |->
                    Append(residual_writes[k], [pass |-> pass, calls |-> functor_calls])]
       ELSE UNCHANGED <<residuals, residual_writes>>
  /\ pass' = pass + 1
  /\ epc' = IF pass + 1 < num_strides THEN "seed" ELSE "return"
  /\ UNCHANGED <<parameter_block_sizes, num_residuals, Stride, slope_limit, parameters,
                 want_jacobians, jacobians, input_jets, output_jets, num_strides, ret,
                 jacobian_writes, functor_calls, solver, library>>

\* Line 174: return true.
EvaluateReturn ==
  /\ epc = "return"
  /\ ret' = TRUE
  /\ epc' = "done"
  /\ UNCHANGED <<parameter_block_sizes, num_residuals, Stride, slope_limit, parameters,
                 want_jacobians, residuals, jacobians, input_jets, output_jets, num_strides,
                 pass, jacobian_writes, residual_writes, functor_calls, solver, library>>

\* One solver instance on which Solve is not called.
IdleSolver ==
  /\ InitSolver
  /\ function = "Shift" /\ ~dynR /\ ~dynP /\ x = <<Zero, Zero>>

\* One cost function and one call of Evaluate; the solver instance stays idle.
EvaluateInit == IdleSolver /\ NoLibrary /\ CostFunctionInit

EvaluateNext ==
  \/ EvaluateResidualsOnly
  \/ EvaluateBegin
  \/ SeedPass
  \/ CallFunctor
  \/ CopyJacobian
  \/ CopyResiduals
  \/ EvaluateReturn

EvaluateSpec == EvaluateInit /\ [][EvaluateNext]_vars

(***************************************************************************)
(* The pass count of Evaluate on its own (lines 109-112 and 129), for      *)
(* parameter counts too large to run the passes on: the cost function has  *)
(* one block, and the parameter values and the jets are left out.          *)
(***************************************************************************)
\* The default of the template argument Stride.
DefaultStride == 4

\* Parameter counts around the end of the integers a float holds exactly.
LargeCounts ==
  {Pow2(24), Pow2(24) + 1, Pow2(24) + 2, Pow2(24) + 3, 3 * Pow2(23) + 1, Pow2(25) + 2}

ParameterCounts == 0..(4 * MaxParameters) \cup LargeCounts

CountInit ==
  /\ IdleSolver /\ NoLibrary
  /\ parameter_block_sizes \in {<<n>> : n \in ParameterCounts}
  /\ num_residuals = 1
  /\ Stride \in 1..MaxStride \cup {DefaultStride}
  /\ slope_limit = 0
  /\ parameters = << >> /\ want_jacobians = TRUE
  /\ residuals = <<Stale>> /\ jacobians = << >>
  /\ input_jets = << >> /\ output_jets = << >>
  /\ num_strides = 0 /\ pass = 0 /\ epc = "idle" /\ ret = FALSE
  /\ jacobian_writes = << >> /\ residual_writes = << >> /\ functor_calls = 0

\* Lines 109-112 and 129: num_parameters and num_strides.
CountStrides ==
  /\ epc = "idle"
  /\ num_strides' = NumStrides(SumInts(parameter_block_sizes), Stride)
  /\ epc' = "counted"
  /\ UNCHANGED <<parameter_block_sizes, num_residuals, Stride, slope_limit, parameters,
                 want_jacobians, residuals, jacobians, input_jets, output_jets, pass, ret,
                 jacobian_writes, residual_writes, functor_calls, solver, library>>

CountSpec == CountInit /\ [][CountStrides]_vars

(***************************************************************************)
(* TinySolverFunctionAutoDiffAdapter::operator() (tiny_solver.h, lines     *)
(* 355-401).  One call of it is held in the variables of the cost function *)
(* above: kNumParameters is the one entry of parameter_block_sizes and the *)
(* jet width Stride, kNumResiduals is num_residuals, jet_parameters is     *)
(* input_jets, jet_residuals is output_jets, and the caller's jacobian     *)
(* array (column-major, kNumResiduals x kNumParameters) is the one entry   *)
(* of jacobians.                                                           *)
(***************************************************************************)
MaxJetWidth == 3
MaxValue == 2

\* Stands for the constant, far outside the values of a residual, that the
\* output jets are filled with before the call.
kImpossibleValue == -98

RECURSIVE Tuples(_, _)
Tuples(n, S) ==
  IF n = 0 THEN {<< >>} ELSE {Append(q, z) : q \in Tuples(n - 1, S), z \in S}

\* Seeds that put the 1 of every input into slot 0.
SeedJetParametersFirstSlot(w) ==
  [c \in 1..Len(w) |-> [a |-> w[c], v |-> [d \in 1..Len(w) |-> IF d = 1 THEN 1 ELSE 0]]]

\* Lines 369-375: input i carries the value parameters[i] and the derivative e_i.
SeedJetParameters(w) ==
  [c \in 1..Len(w) |-> [a |-> w[c], v |-> [d \in 1..Len(w) |-> IF d = c THEN 1 ELSE 0]]]

AdapterInit ==
  /\ IdleSolver /\ NoLibrary
  /\ \E n \in 1..MaxJetWidth :
       /\ parameter_block_sizes = <<n>>
       /\ Stride = n
       /\ parameters \in {<<w>> : w \in Tuples(n, (-MaxValue)..MaxValue)}
  /\ num_residuals \in 1..MaxResiduals
  /\ slope_limit \in {6, 100}
  /\ want_jacobians \in BOOLEAN
  /\ residuals = [k \in 1..num_residuals |-> Stale]
  /\ jacobians = <<[e \in 1..(num_residuals * Stride) |-> Stale]>>
  /\ input_jets = << >> /\ output_jets = << >>
  /\ num_strides = 0 /\ pass = 0 /\ epc = "idle" /\ ret = FALSE
  /\ jacobian_writes = <<[e \in 1..(num_residuals * Stride) |-> << >>]>>
  /\ residual_writes = [k \in 1..num_residuals |-> << >>]
  /\ functor_calls = 0

\* Lines 358-362: no jacobian requested, the functor is called on plain scalars.
AdapterResidualsOnly ==
  /\ epc = "idle"
  /\ ~want_jacobians
  /\ LET call == Functor([c \in 1..Stride |-> JetOf(parameters[1][c], 0)],
                         num_residuals, 0, slope_limit)
     IN  /\ residuals' = [k \in 1..num_residuals |-> call.out[k].a]
         /\ ret' = call.ok
  /\ functor_calls' = 1
  /\ epc' = "done"
  /\ UNCHANGED <<parameter_block_sizes, num_residuals, Stride, slope_limit, parameters,
                 want_jacobians, jacobians, input_jets, output_jets, num_strides, pass,
                 jacobian_writes, residual_writes, solver, library>>

\* Lines 369-382: the input jets are seeded, the output jets are filled with
\* kImpossibleValue.
AdapterSeed ==
  /\ epc = "idle"
  /\ want_jacobians
  /\ input_jets' = SeedJetParameters(parameters[1])
  /\ output_jets' = [k \in 1..num_residuals |->
                       [a |-> kImpossibleValue, v |-> [d \in 1..Stride |-> kImpossibleValue]]]
  /\ epc' = "call"
  /\ UNCHANGED <<parameter_block_sizes, num_residuals, Stride, slope_limit, parameters,
                 want_jacobians, residuals, jacobians, num_strides, pass, ret,
                 jacobian_writes, residual_writes, functor_calls, solver, library>>

\* Lines 384-387: the functor on jets; false returns false at once.
AdapterCall ==
  /\ epc = "call"
  /\ LET call == Functor(input_jets, num_residuals, Stride, slope_limit)
     IN  /\ output_jets' = call.out
         /\ epc' = IF call.ok THEN "copy" ELSE "done"
         /\ ret' = FALSE
  /\ functor_calls' = functor_calls + 1
  /\ UNCHANGED <<parameter_block_sizes, num_residuals, Stride, slope_limit, parameters,
                 want_jacobians, residuals, jacobians, input_jets, num_strides, pass,
                 jacobian_writes, residual_writes, solver, library>>

\* The copy into a row-major jacobian array.
AdapterCopyRowMajor ==
  /\ epc = "copy"
  /\ residuals' = [k \in 1..num_residuals |-> output_jets[k].a]
  /\ jacobians' = <<[e \in 1..(num_residuals * Stride) |->
                       output_jets[((e - 1) \div Stride) + 1].v[((e - 1) % Stride) + 1]]>>
  /\ ret' = TRUE
  /\ epc' = "done"
  /\ UNCHANGED <<parameter_block_sizes, num_residuals, Stride, slope_limit, parameters,
                 want_jacobians, input_jets, output_jets, num_strides, pass,
                 jacobian_writes, residual_writes, functor_calls, solver, library>>

\* Lines 389-400: residuals[r] = jet_residuals[r].a and row r of the
\* column-major jacobian = jet_residuals[r].v; return true.
AdapterCopy ==
  /\ epc = "copy"
  /\ residuals' = [k \in 1..num_residuals |-> output_jets[k].a]
  /\ jacobians' = <<[e \in 1..(num_residuals * Stride) |->
                       output_jets[((e - 1) % num_residuals) + 1].v[((e - 1) \div num_residuals) + 1]]>>
  /\ ret' = TRUE
  /\ epc' = "done"
  /\ UNCHANGED <<parameter_block_sizes, num_residuals, Stride, slope_limit, parameters,
                 want_jacobians, input_jets, output_jets, num_strides, pass,
                 jacobian_writes, residual_writes, functor_calls, solver, library>>

AdapterNext ==
  \/ AdapterResidualsOnly
  \/ AdapterSeed
  \/ AdapterCall
  \/ AdapterCopy

AdapterSpec == AdapterInit /\ [][AdapterNext]_vars

(***************************************************************************)
(* ParallelFor (internal/ceres/parallel_for_cxx.cc): the calling thread    *)
(* and the pool's workers, one step per statement that touches shared      *)
(* state or enters or leaves function.  The two critical sections (under   *)
(* mutex_i and under BlockUntilFinished::mutex_) are one step each.  The   *)
(* thread pool is a counter of queued tasks, each of which a worker may    *)
(* take at any time or never.  An int has 32 bits.                         *)
(***************************************************************************)
MaxStart == 0
MaxRange == 3
MaxThreads == 3
MaxWorkers == 1

\* std::numeric_limits<int>::max()
IntMax == 2147483647

\* The values `a += b` can leave in an int a, for b > 0: the sum, or, when the
\* sum is not representable (undefined behaviour), the sum wrapped to 32 bits
\* or a value no smaller than any int the sum is compared with.
AddAssign(a, b) ==
  IF a > IntMax - b THEN {(a - IntMax - 1) + (b - IntMax - 1), IntMax} ELSE {a + b}

\* One more entry of function(j) in the history.
Enter(m, k) == IF k \in DOMAIN m THEN [m EXCEPT ![k] = @ + 1] ELSE m @@ (k :> 1)

\* Lines 88-93: the constructor of SharedState and of its BlockUntilFinished.
SharedState(start, end, num_threads) ==
  [made |-> TRUE, start |-> start, end |-> end, num_threads |-> num_threads, i |-> 0,
   num_finished |-> 0, num_total |-> StdMin(end - start, num_threads)]

\* Lines 162-163: no block of work is left to claim.
NoWorkLeft ==
  \/ shared_state.i >= shared_state.end - shared_state.start
  \/ shared_state.i >= shared_state.num_threads

Idle == [pc |-> "idle", i |-> 0, j |-> 0]

ParallelForInit ==
  /\ IdleSolver /\ NoCostFunction /\ NoOrderedGroups
  /\ \E s \in (-1)..MaxStart :
       arguments \in [start : {s}, end : (s - 1)..(s + MaxRange),
                      num_threads : 0..MaxThreads \cup {IntMax}]
  /\ shared_state = [made |-> FALSE, start |-> 0, end |-> 0, num_threads |-> 0, i |-> 0,
                     num_finished |-> 0, num_total |-> 0]
  /\ task_queue = 0
  /\ caller = [pc |-> "ready", i |-> 0, j |-> 0]
  /\ workers = [w \in 1..MaxWorkers |-> Idle]
  /\ invoked = EmptyMap
  /\ check_failed = FALSE

\* Lines 134-152: the checks, the empty range, the choice of the path.
ParallelForBegin ==
  /\ caller.pc = "ready" /\ ~check_failed
  /\ IF arguments.num_threads <= 0
       THEN /\ check_failed' = TRUE
            /\ caller' = [caller EXCEPT !.pc = "aborted"]
            /\ UNCHANGED shared_state
       ELSE /\ check_failed' = FALSE
            /\ IF arguments.end <= arguments.start
                 THEN caller' = [caller EXCEPT !.pc = "returned"] /\ UNCHANGED shared_state
                 ELSE IF arguments.num_threads = 1
                   THEN /\ caller' = [pc |-> "fast", i |-> arguments.start, j |-> 0]
                        /\ UNCHANGED shared_state
                   ELSE /\ caller' = [pc |-> "add", i |-> 0, j |-> 0]
                        /\ shared_state' = SharedState(arguments.start, arguments.end,
                                                       arguments.num_threads)
  /\ UNCHANGED <<arguments, task_queue, workers, invoked, ordering, solver, autodiff>>

\* Lines 141-145: the single-threaded loop enters function(i), or ends.
FastPathCall ==
  /\ caller.pc = "fast" /\ ~check_failed
  /\ IF caller.i < arguments.end
       THEN /\ invoked' = Enter(invoked, caller.i)
            /\ caller' = [caller EXCEPT !.pc = "fast_in_function"]
       ELSE /\ caller' = [caller EXCEPT !.pc = "returned"]
            /\ UNCHANGED invoked
  /\ UNCHANGED <<arguments, shared_state, task_queue, workers, check_failed, ordering,
                 solver, autodiff>>

\* Lines 142-143: function(i) returns; ++i.
FastPathReturn ==
  /\ caller.pc = "fast_in_function" /\ ~check_failed
  /\ \E n \in AddAssign(caller.i, 1) : caller' = [caller EXCEPT !.pc = "fast", !.i = n]
  /\ UNCHANGED <<arguments, shared_state, task_queue, workers, invoked, check_failed,
                 ordering, solver, autodiff>>

\* The loop of lines 181-187 followed at once by Block(): the calling thread
\* leaves every block to the pool.
AddTaskThenBlock ==
  /\ caller.pc = "add" /\ ~check_failed
  /\ IF caller.i < arguments.end - arguments.start /\ caller.i < arguments.num_threads
       THEN /\ task_queue' = task_queue + 1
            /\ caller' = [caller EXCEPT !.i = @ + 1]
       ELSE /\ caller' = [caller EXCEPT !.pc = "block"]
            /\ UNCHANGED task_queue
  /\ UNCHANGED <<arguments, shared_state, workers, invoked, check_failed, ordering,
                 solver, autodiff>>

\* Lines 181-187: one more task for the thread pool, or the end of the loop.
AddTask ==
  /\ caller.pc = "add" /\ ~check_failed
  /\ IF caller.i < arguments.end - arguments.start /\ caller.i < arguments.num_threads
       THEN /\ task_queue' = task_queue + 1
            /\ caller' = [caller EXCEPT !.i = @ + 1]
       ELSE /\ caller' = [caller EXCEPT !.pc = "claim"]
            /\ UNCHANGED task_queue
  /\ UNCHANGED <<arguments, shared_state, workers, invoked, check_failed, ordering,
                 solver, autodiff>>

\* Lines 157-168: the critical section of task_function, run by thread t.  It
\* claims the next block of work, or finds none and returns false, which
\* leaves the thread at `out`.
ClaimBlock(t, out) ==
  IF NoWorkLeft
    THEN [thread |-> [t EXCEPT !.pc = out], i |-> shared_state.i]
    ELSE [thread |-> [pc |-> "loop", i |-> shared_state.i,
                      j |-> shared_state.start + shared_state.i],
          i |-> shared_state.i + 1]

\* Lines 171-174: the test of the loop over the block, and the entry into
\* function(j).
LoopTest(t) ==
  IF t.j < shared_state.end
    THEN [thread |-> [t EXCEPT !.pc = "in_function"], invoked |-> Enter(invoked, t.j)]
    ELSE [thread |-> [t EXCEPT !.pc = "finish"], invoked |-> invoked]

\* Lines 173-174: function(j) returns; j += num_threads.
LoopStep(t) ==
  {[t EXCEPT !.pc = "loop", !.j = n] : n \in AddAssign(t.j, shared_state.num_threads)}

\* Lines 61-68: BlockUntilFinished::Finished().
Finished == [shared_state EXCEPT !.num_finished = @ + 1]

\* The calling thread in task_function (lines 192-193: while (task_function())).
\* A false return takes it to Block().
CallerClaims ==
  /\ caller.pc = "claim" /\ ~check_failed
  /\ \E r \in {ClaimBlock(caller, "block")} :
       /\ caller' = r.thread
       /\ shared_state' = [shared_state EXCEPT !.i = r.i]
  /\ UNCHANGED <<arguments, task_queue, workers, invoked, check_failed, ordering,
                 solver, autodiff>>

CallerLoopTest ==
  /\ caller.pc = "loop" /\ ~check_failed
  /\ \E r \in {LoopTest(caller)} : caller' = r.thread /\ invoked' = r.invoked
  /\ UNCHANGED <<arguments, shared_state, task_queue, workers, check_failed, ordering,
                 solver, autodiff>>

CallerFunctionReturns ==
  /\ caller.pc = "in_function" /\ ~check_failed
  /\ caller' \in LoopStep(caller)
  /\ UNCHANGED <<arguments, shared_state, task_queue, workers, invoked, check_failed,
                 ordering, solver, autodiff>>

\* Lines 176-177 on the calling thread: Finished(), then task_function returns
\* true and the while loop calls it again.
CallerFinished ==
  /\ caller.pc = "finish" /\ ~check_failed
  /\ shared_state' = Finished
  /\ check_failed' = (shared_state'.num_finished > shared_state.num_total)
  /\ caller' = [caller EXCEPT !.pc = IF check_failed' THEN "aborted" ELSE "claim"]
  /\ UNCHANGED <<arguments, task_queue, workers, invoked, ordering, solver, autodiff>>

\* Block() without its wait: ParallelFor returns as soon as the calling thread
\* finds no block to claim.
BlockReturnsWithoutWaiting ==
  /\ caller.pc = "block" /\ ~check_failed
  /\ caller' = [caller EXCEPT !.pc = "returned"]
  /\ UNCHANGED <<arguments, shared_state, task_queue, workers, invoked, check_failed,
                 ordering, solver, autodiff>>

\* Lines 71-74 and 196: Block() returns once num_finished_ == num_total_, and
\* ParallelFor returns.
BlockReturns ==
  /\ caller.pc = "block" /\ ~check_failed
  /\ shared_state.num_finished = shared_state.num_total
  /\ caller' = [caller EXCEPT !.pc = "returned"]
  /\ UNCHANGED <<arguments, shared_state, task_queue, workers, invoked, check_failed,
                 ordering, solver, autodiff>>

\* The thread pool: an idle worker takes a queued task and starts it.
WorkerTakesTask(w) ==
  /\ workers[w].pc = "idle" /\ ~check_failed
  /\ task_queue > 0
  /\ task_queue' = task_queue - 1
  /\ workers' = [workers EXCEPT ![w].pc = "claim"]
  /\ UNCHANGED <<arguments, shared_state, caller, invoked, check_failed, ordering,
                 solver, autodiff>>

\* A worker in task_function (line 186: the task calls task_function once).
WorkerClaims(w) ==
  /\ workers[w].pc = "claim" /\ ~check_failed
  /\ \E r \in {ClaimBlock(workers[w], "idle")} :
       /\ workers' = [workers EXCEPT ![w] = IF r.thread.pc = "idle" THEN Idle ELSE r.thread]
       /\ shared_state' = [shared_state EXCEPT !.i = r.i]
  /\ UNCHANGED <<arguments, task_queue, caller, invoked, check_failed, ordering,
                 solver, autodiff>>

WorkerLoopTest(w) ==
  /\ workers[w].pc = "loop" /\ ~check_failed
  /\ \E r \in {LoopTest(workers[w])} :
       workers' = [workers EXCEPT ![w] = r.thread] /\ invoked' = r.invoked
  /\ UNCHANGED <<arguments, shared_state, task_queue, caller, check_failed, ordering,
                 solver, autodiff>>

WorkerFunctionReturns(w) ==
  /\ workers[w].pc = "in_function" /\ ~check_failed
  /\ \E t \in LoopStep(workers[w]) : workers' = [workers EXCEPT ![w] = t]
  /\ UNCHANGED <<arguments, shared_state, task_queue, caller, invoked, check_failed,
                 ordering, solver, autodiff>>

\* Lines 176-177 on a worker: Finished(), then the task ends.
WorkerFinished(w) ==
  /\ workers[w].pc = "finish" /\ ~check_failed
  /\ shared_state' = Finished
  /\ check_failed' = (shared_state'.num_finished > shared_state.num_total)
  /\ workers' = [workers EXCEPT ![w] = IF check_failed' THEN [@ EXCEPT !.pc = "aborted"]
                                                         ELSE Idle]
  /\ UNCHANGED <<arguments, task_queue, caller, invoked, ordering, solver, autodiff>>

\* The steps of the calling thread inside ParallelFor.
CallerStep ==
  \/ ParallelForBegin
  \/ FastPathCall
  \/ FastPathReturn
  \/ AddTask
  \/ CallerClaims
  \/ CallerLoopTest
  \/ CallerFunctionReturns
  \/ CallerFinished
  \/ BlockReturns

\* The steps of a worker that has started a task.
WorkerStep(w) ==
  \/ WorkerClaims(w)
  \/ WorkerLoopTest(w)
  \/ WorkerFunctionReturns(w)
  \/ WorkerFinished(w)

ParallelForNext ==
  \/ CallerStep
  \/ \E w \in 1..MaxWorkers : WorkerTakesTask(w) \/ WorkerStep(w)

ParallelForSpec == ParallelForInit /\ [][ParallelForNext]_vars

\* The same call under fair scheduling of the calling thread and of every
\* worker that has started a task; every entered function returns.  Nothing
\* makes the pool start a queued task.
ParallelForFairSpec ==
  /\ ParallelForSpec
  /\ WF_vars(CallerStep)
  /\ \A w \in 1..MaxWorkers : WF_vars(WorkerStep(w))

(***************************************************************************)
(* OrderedGroups<T> (include/ceres/ordered_groups.h): the two maps of one  *)
(* object and the calls made on it.  Elements are 1..MaxElements, group    *)
(* ids the integers -1..MaxGroup.                                          *)
(***************************************************************************)
MaxElements == 4
MaxGroup == 2

Elements == 1..MaxElements
GroupIds == (-1)..MaxGroup

\* map::operator[] as an lvalue: the entry of key k, created when missing.
MapSet(m, k, val) == [q \in DOMAIN m \cup {k} |-> IF q = k THEN val ELSE m[q]]

\* map::operator[] as an rvalue on a map of sets: a missing entry is created
\* empty.
MapIndex(m, k) == IF k \in DOMAIN m THEN m ELSE MapSet(m, k, {})

\* map::erase(key).
MapErase(m, k) == [q \in DOMAIN m \ {k} |-> m[q]]

\* Lines 57-60 and 72-75: erase the element from the set of group g, and the
\* group with it when the set becomes empty.
EraseFromGroup(m, element, g) ==
  LET a == MapIndex(m, g)
      b == [a EXCEPT ![g] = @ \ {element}]
  IN  IF Cardinality(b[g]) = 0 THEN MapErase(b, g) ELSE b

\* Lines 90-93: IsMember.
IsMember(element) == element \in DOMAIN element_to_group_

\* Lines 82-88: GroupId, for an element that passes its CHECK.
GroupId(element) == element_to_group_[element]

\* Lines 97-101: GroupSize.
GroupSize(group) ==
  IF group \notin DOMAIN group_to_elements_ THEN 0
  ELSE Cardinality(group_to_elements_[group])

\* Lines 103-105: NumElements.
NumElements == Cardinality(DOMAIN element_to_group_)

\* Lines 107-109: NumGroups.
NumGroups == Cardinality(DOMAIN group_to_elements_)

OrderedGroupsInit ==
  /\ IdleSolver /\ NoCostFunction /\ NoParallelFor
  /\ group_to_elements_ = EmptyMap /\ element_to_group_ = EmptyMap
  /\ latest = EmptyMap /\ crashed = FALSE

\* AddToGroup that leaves the element in the group it was in.
AddToGroupKeepsOldGroup(element, group) ==
  /\ ~crashed
  /\ element_to_group_' = MapSet(element_to_group_, element, group)
  /\ \E m \in {MapIndex(group_to_elements_, group)} :
       group_to_elements_' = [m EXCEPT ![group] = @ \cup {element}]
  /\ latest' = MapSet(latest, element, [member |-> TRUE, group |-> group])
  /\ UNCHANGED <<crashed, parallel, solver, autodiff>>

\* Lines 54-65: AddToGroup.
AddToGroup(element, group) ==
  /\ ~crashed
  /\ element_to_group_' = MapSet(element_to_group_, element, group)
  /\ \E m \in {MapIndex(IF IsMember(element)
                          THEN EraseFromGroup(group_to_elements_, element,
                                              element_to_group_[element])
                          ELSE group_to_elements_, group)} :
       group_to_elements_' = [m EXCEPT ![group] = @ \cup {element}]
  /\ latest' = MapSet(latest, element, [member |-> TRUE, group |-> group])
  /\ UNCHANGED <<crashed, parallel, solver, autodiff>>

\* Lines 70-78: Remove.  GroupId's CHECK aborts the process when the element
\* is in no group.
Remove(element) ==
  /\ ~crashed
  /\ IF ~IsMember(element)
       THEN /\ crashed' = TRUE
            /\ UNCHANGED <<group_to_elements_, element_to_group_, latest>>
       ELSE /\ group_to_elements_' = EraseFromGroup(group_to_elements_, element,
                                                    GroupId(element))
            /\ element_to_group_' = MapErase(element_to_group_, element)
            /\ latest' = MapSet(latest, element,
                                [member |-> FALSE, group |-> GroupId(element)])
            /\ UNCHANGED crashed
  /\ UNCHANGED <<parallel, solver, autodiff>>

OrderedGroupsNext ==
  \/ \E element \in Elements : \E group \in GroupIds : AddToGroup(element, group)
  \/ \E element \in Elements : Remove(element)

OrderedGroupsSpec == OrderedGroupsInit /\ [][OrderedGroupsNext]_vars

(***************************************************************************)
(* Properties                                                              *)
(***************************************************************************)
\* Solve has returned and the caller has not touched the solver since.
Returned == pc = "idle" /\ solves > 0 /\ ~touched

\* A step taken by Solve (not by the caller between two calls).
SolveStep == pc # "idle" \/ pc' # "idle"

\* The current iteration is about to accept its step.
Accepting == pc = "rho" /\ solved /\ Gt(rho, Zero)

\* The current iteration is about to reject: failed check, or rho not > 0.
Rejecting == (pc = "solved" /\ ~solved) \/ (pc = "rho" /\ ~Gt(rho, Zero))

\* The last completed iteration accepted its step (a rejection leaves v >= 4).
JustAccepted == pc = "loop" /\ i > 0 /\ v = Two

Max0(n) == IF n < 0 THEN 0 ELSE n

\* A symmetric matrix of order 1 or 2 is positive definite (leading minors).
PositiveDefinite(m) ==
  /\ Gt(m.coeff[1][1], Zero)
  /\ Rows(m) = 2 => Gt(Sub(Mul(m.coeff[1][1], m.coeff[2][2]),
                           Mul(m.coeff[1][2], m.coeff[2][1])), Zero)

\* C1: a step of Solve writes the caller's x only when it accepts the
\* iteration's step (solved and rho > 0), and then x becomes x + dx; every
\* other step of Solve, the loop exit included, leaves x as it was.
C1_XWrittenOnlyOnAccept ==
  [][SolveStep => IF Accepting THEN x' = VecAdd(x, dx_) ELSE x' = x]_vars

\* An accepted step has just moved x away from every starting point.
C1_Witness ==
  /\ JustAccepted
  /\ Gt(rho, Zero)
  /\ x = x_new_
  /\ x \notin InitialPoints(function)

\* C2: when a cost function call made by Solve returned false, the returned
\* status is FAILED_TO_EVALUATE_COST_FUNCTION.
C2_FailedEvaluationReported ==
  (Returned /\ eval_failed) => results.status = "FAILED_TO_EVALUATE_COST_FUNCTION"

\* C3 as stated: Solve never returns RUNNING, the returned status is terminal,
\* and HIT_MAX_ITERATIONS goes with results.iterations = max_iterations.
C3_Original ==
  Returned =>
    /\ results.status \in Status \ {"RUNNING"}
    /\ results.status = "HIT_MAX_ITERATIONS" =>
         results.iterations = params.max_iterations

\* C3 amended: Solve never returns RUNNING; the returned status is one of the
\* three convergence statuses or HIT_MAX_ITERATIONS, and it is
\* HIT_MAX_ITERATIONS exactly when no convergence test fired, in which case
\* the loop ran max(max_iterations, 0) iterations.
C3_TerminalStatus ==
  /\ [](Returned =>
          /\ results.status \in {"GRADIENT_TOO_SMALL", "ERROR_TOO_SMALL",
                                 "RELATIVE_STEP_SIZE_TOO_SMALL", "HIT_MAX_ITERATIONS"}
          /\ results.status = "HIT_MAX_ITERATIONS" =>
               results.iterations = Max0(params.max_iterations))
  /\ [][(pc # "idle" /\ pc' = "idle") =>
          /\ results'.status = "HIT_MAX_ITERATIONS" <=> results.status = "RUNNING"
          /\ results.status = "RUNNING" => i = Max0(params.max_iterations)]_vars

\* Solve returned HIT_MAX_ITERATIONS after running a positive number of iterations.
C3_Witness ==
  Returned /\ results.status = "HIT_MAX_ITERATIONS" /\ results.iterations > 0


\* C4 as stated: the iteration count Solve returns is at most max_iterations.
C4_Original == Returned => results.iterations <= params.max_iterations

\* Steps Solve can still take before it returns, at most: three per iteration
\* and the return itself.
StepsLeft ==
  3 * (Max0(params.max_iterations) - i)
    + (CASE pc = "loop" -> 4 [] pc = "solved" -> 3 [] pc = "rho" -> 2 [] pc = "exit" -> 1
         [] OTHER -> 0)

\* C4 amended: Solve terminates (the steps it has taken plus StepsLeft never
\* exceed 3 * max(max_iterations, 0) + 4, and StepsLeft is 0 only once it has
\* returned); it runs at most max(max_iterations, 0) loop iterations and calls the
\* cost function at most 1 + 2 * max(max_iterations, 0) times: once before the
\* loop and at most twice in each iteration.
C4_BoundedWork ==
  /\ pc # "idle" =>
       /\ i <= Max0(params.max_iterations)
       /\ calls <= 1 + 2 * i + (IF pc = "rho" THEN 1 ELSE 0)
       /\ steps + StepsLeft <= 3 * Max0(params.max_iterations) + 4
       /\ StepsLeft > 0
  /\ Returned =>
       /\ results.iterations <= Max0(params.max_iterations)
       /\ calls <= 1 + 2 * Max0(params.max_iterations)
       /\ steps <= 3 * Max0(params.max_iterations) + 4

\* Solve returned after using every iteration and every call the bound allows.
C4_Witness ==
  /\ Returned
  /\ params.max_iterations = MaxIterationsBound
  /\ results.iterations = params.max_iterations
  /\ calls = 1 + 2 * params.max_iterations

\* C5 as stated: an accepted step never increases the damping factor (looked
\* at where the factor is a determined number).
C5_Original == [][(Accepting /\ Determined(u')) => Le(u', u)]_vars

\* C5 amended: an accepted step sets u to u * max(1/3, 1 - (2 rho - 1)^3) and
\* v to 2; for u >= 0 the new damping factor is at most u when rho >= 1/2,
\* and lies between u and 2 u, both included, when 0 < rho < 1/2.
C5_AcceptedDamping ==
  [][Accepting =>
       LET t == Sub(Mul(Two, rho), One)
           c == Sub(One, Mul(t, Mul(t, t)))
       IN  /\ u' = Mul(u, StdMax(Rat(1, 3), c))
           /\ v' = Two
           /\ (Le(Rat(1, 2), rho) /\ Le(Zero, u)) => Le(u', u)
           /\ (Lt(rho, Rat(1, 2)) /\ Le(Zero, u)) =>
                Le(u, u') /\ Le(u', Mul(Two, u))]_vars

\* A step was accepted with 0 < rho < 1/2 and a positive damping factor.
C5_Witness ==
  JustAccepted /\ Gt(rho, Zero) /\ Lt(rho, Rat(1, 2)) /\ Gt(u, Zero)

\* C6: a rejected iteration (failed check of the linear solve, or rho not > 0)
\* sets u to u * v, which is larger than u, and doubles v.
C6_RejectionRaisesDamping ==
  [][Rejecting => u' = Mul(u, v) /\ Gt(u', u) /\ v' = Mul(Two, v)]_vars

\* C7: whenever the damped system is formed, u > 0 and v >= 2, and the damped
\* matrix is positive definite.
C7_PositiveDamping ==
  pc = "solved" => Gt(u, Zero) /\ Le(Two, v) /\ PositiveDefinite(jtj_augmented_)

\* C8 as stated, its bound: the linear solves that fail in one Solve number at
\* most max_iterations, and none of them leads to a failure status.
C8_Original ==
  Returned =>
    /\ fails <= params.max_iterations
    /\ fails > 0 => results.status \notin {"FAILED_TO_EVALUATE_COST_FUNCTION",
                                           "FAILED_TO_SOLVER_LINEAR_SYSTEM"}

\* C8 amended: an iteration whose linear solve fails counts one failed solve,
\* sets u to u * v and doubles v, makes no cost function call, leaves x, the
\* residual, the Jacobian and the gradient as they were and the status
\* RUNNING; failed solves never lead to a failure status, and one Solve has at
\* most max(max_iterations, 0) of them.
C8_FailedSolveRecovered ==
  /\ [][(pc = "solved" /\ ~solved) =>
          /\ results'.num_failed_linear_solves = results.num_failed_linear_solves + 1
          /\ fails' = fails + 1
          /\ u' = Mul(u, v)
          /\ v' = Mul(Two, v)
          /\ i' = i + 1
          /\ calls' = calls
          /\ x' = x
          /\ error_' = error_ /\ jacobian_' = jacobian_ /\ g_' = g_
          /\ results.status = "RUNNING" /\ results'.status = "RUNNING"
          /\ pc' = "loop"]_vars
  /\ []((pc # "idle" \/ Returned) => fails <= Max0(params.max_iterations))
  /\ []((Returned /\ fails > 0) =>
          results.status \notin {"FAILED_TO_EVALUATE_COST_FUNCTION",
                                 "FAILED_TO_SOLVER_LINEAR_SYSTEM"})

\* Two linear solves have failed and Solve is still running.
C8_Witness ==
  pc = "loop" /\ fails >= 2 /\ results.status = "RUNNING" /\ calls = 1

\* C9: the failed-solve count a Solve returns is the number of linear solves
\* that failed in that call.
C9_FailedSolveCount ==
  Returned => results.num_failed_linear_solves = fails

\* Every scratch array has the dimensions of the problem.
AllSized ==
  /\ Len(error_) = R /\ Len(f_x_new_) = R
  /\ Dims(jacobian_) = <<R, P>>
  /\ Dims(jtj_) = <<P, P>> /\ Dims(jtj_augmented_) = <<P, P>>
  /\ Len(g_) = P /\ Len(dx_) = P /\ Len(x_new_) = P

\* C10: when the loop of Solve starts every scratch array has its final
\* dimensions, and no step inside the loop gives an array new dimensions.
C10_SizedBeforeLoop ==
  pc \in {"loop", "solved", "rho", "exit"} => AllSized /\ resized = {}

\* Evaluate has returned from a call that asked for Jacobians.
EvaluateDone == epc = "done" /\ want_jacobians

\* Within the bounds of the running Evaluate a successful call with batch
\* width Stride leaves the Jacobian entries and the residuals that a successful
\* single pass (width = the parameter count) leaves, for every split into
\* blocks, and Evaluate is the function EvaluateWithWidth of its inputs.
StrideInvarianceOfRunningEvaluate ==
  EvaluateDone =>
    LET np == SumInts(parameter_block_sizes)
        strided == EvaluateWithWidth(parameter_block_sizes, num_residuals, slope_limit,
                                     parameters, Stride)
        single == EvaluateWithWidth(parameter_block_sizes, num_residuals, slope_limit,
                                    parameters, np)
    IN  /\ ret = strided.ret
        /\ jacobians = strided.jacobians
        /\ residuals = strided.residuals
        /\ (ret /\ np >= 1 /\ single.ret) =>
             jacobians = single.jacobians /\ residuals = single.residuals

\* ceil(n / w) in the integers.
CeilDiv(n, w) == (n + w - 1) \div w

\* num_strides has been computed by a call that asked for Jacobians.
StridesCounted == want_jacobians /\ epc \notin {"none", "idle", "aborted"}

\* The parameters whose Jacobian entries a successful Evaluate of width w
\* writes, of np parameters: the passes p < num_strides write the slices
\* [p * w, min((p + 1) * w, np)), which is every parameter below this one.
WrittenBelow(np, w) == StdMin(NumStrides(np, w) * w, np)

\* C12: stride invariance.  A successful Evaluate with batch width Stride
\* writes the Jacobian entries of the parameters a successful single pass
\* (width = the parameter count) writes, and so does every other width.
C12_StrideInvariance ==
  StridesCounted =>
    LET np == SumInts(parameter_block_sizes)
        written == StdMin(num_strides * Stride, np)
    IN  /\ np >= 1 => written = WrittenBelow(np, np)
        /\ \A w \in 1..MaxStride \cup {DefaultStride} : written = WrittenBelow(np, w)

\* C13: Evaluate with Jacobians runs exactly ceil(P / S) passes, for every
\* parameter count P >= 0 and stride S >= 1, so that the slices
\* [p * S, min((p + 1) * S, P)) of the passes p < num_strides partition [0, P).
C13_PassCount ==
  StridesCounted =>
    LET np == SumInts(parameter_block_sizes)
    IN  /\ num_strides = CeilDiv(np, Stride)
        /\ np > 0 => /\ (num_strides - 1) * Stride < np
                     /\ np <= num_strides * Stride

\* The value of residual k at the parameter values w, computed on plain numbers.
RECURSIVE ResidualSum(_, _, _)
ResidualSum(k, w, c) ==
  IF c > Len(w) THEN 0
  ELSE k * w[c] * w[(c % Len(w)) + 1] - w[c] + ResidualSum(k, w, c + 1)

\* C14: in every call of Evaluate with Jacobians requested that returns true,
\* each residuals[k] is written exactly once, with the functor's k-th residual
\* value, in the final pass and after that pass's functor call, for every
\* parameter count, P = 0 included.
C14_ResidualsWrittenOnce ==
  (EvaluateDone /\ ret) =>
    \A k \in 1..num_residuals :
      /\ Len(residual_writes[k]) = 1
      /\ residual_writes[k][1].pass = num_strides - 1
      /\ residual_writes[k][1].calls = num_strides
      /\ residuals[k] = ResidualSum(k, Flatten(parameters), 1)

\* Evaluate with Jacobians has returned false: the functor failed in pass `pass`.
EvaluateFailed == EvaluateDone /\ ~ret

\* The Jacobian entries: block b (from 1), entry e (from 1) of the block.
JacobianEntries ==
  UNION {{<<b, e>> : e \in 1..Len(jacobians[b])} : b \in 1..Len(jacobians)}

\* The parameter cursor (from 0) of the entry e of block b.
EntryCursor(b, e) == Cursor(parameter_block_sizes, b, (e - 1) % parameter_block_sizes[b])

\* C15 (as stated): when the functor fails in any pass, none of the caller's
\* Jacobian entries has been modified at the false return.
C15_Original ==
  EvaluateFailed =>
    \A be \in JacobianEntries :
      /\ jacobian_writes[be[1]][be[2]] = << >>
      /\ jacobians[be[1]][be[2]] = Stale

\* C15 (amended): when the functor fails in a pass, Evaluate returns false at
\* once: no later pass runs, the residuals are not written, the entries of the
\* parameters of the failing and the later passes are unmodified, and the
\* entries of the parameters of the earlier passes hold what those passes wrote.
C15_FailureStopsEvaluation ==
  EvaluateFailed =>
    /\ functor_calls = pass + 1
    /\ pass < num_strides
    /\ \A k \in 1..num_residuals : residual_writes[k] = << >> /\ residuals[k] = Stale
    /\ \A be \in JacobianEntries :
         LET c == EntryCursor(be[1], be[2])
             k == (be[2] - 1) \div parameter_block_sizes[be[1]] + 1
         IN  IF c < pass * Stride
               THEN /\ jacobian_writes[be[1]][be[2]] = <<c \div Stride>>
                    /\ jacobians[be[1]][be[2]] = Partial(k, c + 1, Flatten(parameters))
               ELSE /\ jacobian_writes[be[1]][be[2]] = << >>
                    /\ jacobians[be[1]][be[2]] = Stale

C15_Witness ==
  /\ EvaluateFailed /\ pass >= 1
  /\ \E be \in JacobianEntries : jacobian_writes[be[1]][be[2]] # << >>
  /\ \E be \in JacobianEntries : jacobian_writes[be[1]][be[2]] = << >>

\* The pass whose active slice [p * S, min((p + 1) * S, P)) holds the parameter
\* with cursor c (from 0).
PassOf(c) == c \div Stride

\* C16: in a successful Evaluate every Jacobian entry is written exactly once,
\* in the pass whose active slice contains its parameter; in particular the
\* pass of every parameter, the last one included, is among the passes run.
C16_EveryParameterHasItsPass ==
  StridesCounted =>
    LET np == SumInts(parameter_block_sizes)
    IN  \A c \in {0, np \div 2, np - 1} : (0 <= c /\ c < np) => PassOf(c) < num_strides

\* The functor has been called on the seeded jets.
JetsEvaluated == want_jacobians /\ epc \in {"copy", "done"}

\* C18: on inputs where input i carries the value x_i and the derivative
\* vector e_i, a residual function built from +, - and * yields, for every
\* output r, a value part equal to the ordinary evaluation and a derivative
\* slot i equal to the exact partial derivative of r by x_i; the adapter hands
\* them out as residuals[r] and as entry (r, i) of the column-major jacobian.
C18_SeedingContract ==
  JetsEvaluated =>
    LET w == parameters[1]
    IN  /\ \A c \in 1..Stride : input_jets[c].a = w[c]
        /\ \A r \in 1..num_residuals :
             /\ output_jets[r].a = ResidualSum(r, w, 1)
             /\ \A c \in 1..Stride : output_jets[r].v[c] = Partial(r, c, w)
        /\ (epc = "done" /\ ret) =>
             \A r \in 1..num_residuals :
               /\ residuals[r] = ResidualSum(r, w, 1)
               /\ \A c \in 1..Stride :
                    jacobians[1][(c - 1) * num_residuals + r] = Partial(r, c, w)

C18_Witness ==
  /\ JetsEvaluated /\ epc = "done" /\ ret
  /\ Stride >= 2 /\ num_residuals >= 2
  /\ \E c \in 1..Stride : parameters[1][c] < 0
  /\ \E c, d \in 1..Stride : jacobians[1][c] # jacobians[1][d]

\* The Jacobian of the current point has a column of zeros.
ZeroColumn(jac) ==
  /\ Dims(jac) = <<R, P>>
  /\ \E c \in 1..P : \A r \in 1..R : jac.coeff[r][c] = Zero

\* An iteration has formed and solved its system for a Jacobian with a zero column.
ZeroColumnSolved == pc = "solved" /\ ZeroColumn(jacobian_)

\* Every entry of x is a finite number.
FiniteX == \A k \in 1..Len(x) : FiniteOutcomes(x[k]) = {TRUE}

CheckedStep == (pc \in {"solved", "rho"} /\ solved) => ~HasNaN(dx_) /\ ~HasInf(dx_)

UpdateCalled == (pc = "idle" /\ pc' = "loop") \/ (pc = "rho" /\ Gt(rho, Zero) /\ pc' = "loop")

\* max |g_i| < t and max |g_i| = t, entry by entry.
GradientBelow(g, t) == \A k \in 1..Len(g) : Lt(AbsQ(g[k]), t)
GradientAt(g, t) ==
  /\ \A k \in 1..Len(g) : Le(AbsQ(g[k]), t)
  /\ \E k \in 1..Len(g) : AbsQ(g[k]) = t

\* The residual norm < t and = t for t >= 0, on the squares.
ErrorBelow(e, t) == Gt(t, Zero) /\ Lt(SquaredNorm(e), Mul(t, t))
ErrorAt(e, t) == SquaredNorm(e) = Mul(t, t)

\* C20: Update tests convergence in a fixed order with strict comparisons, on
\* every gradient and residual made of determined numbers:
\* GRADIENT_TOO_SMALL if max |g_i| < gradient_threshold (also when the error
\* test holds as well), otherwise ERROR_TOO_SMALL if the residual norm <
\* error_threshold, otherwise RUNNING; a value equal to its threshold does not
\* terminate.
C20_UpdateOrder ==
  [][(UpdateCalled /\ AllSized' /\ AllDetermined(g_') /\ AllDetermined(error_')) =>
       LET small_g == GradientBelow(g_', params.gradient_threshold)
           small_e == ErrorBelow(error_', params.error_threshold)
       IN  /\ small_g => results'.status = "GRADIENT_TOO_SMALL"
           /\ (~small_g /\ small_e) => results'.status = "ERROR_TOO_SMALL"
           /\ (~small_g /\ ~small_e) => results'.status = "RUNNING"
           /\ GradientAt(g_', params.gradient_threshold)
                => results'.status # "GRADIENT_TOO_SMALL"
           /\ ErrorAt(error_', params.error_threshold)
                => results'.status # "ERROR_TOO_SMALL"]_vars

\* Update has just found the gradient and the residual norm equal to their
\* thresholds, and left the status RUNNING.
C20_Witness ==
  /\ pc = "loop" /\ AllSized
  /\ Gt(params.gradient_threshold, Zero)
  /\ GradientAt(g_, params.gradient_threshold)
  /\ ErrorAt(error_, params.error_threshold)
  /\ results.status = "RUNNING"

\* The linear solve is verified and the step is short: the squared step norm is
\* below relative_step_threshold^2 times the squared norm of x.
ShortStep ==
  /\ pc = "solved" /\ solved
  /\ Lt(SquaredNorm(dx_),
        Mul(Mul(params.relative_step_threshold, params.relative_step_threshold),
            SquaredNorm(x)))

\* C21: when the linear solve is verified and the step norm is below
\* relative_step_threshold times the norm of x, Solve ends at once with
\* RELATIVE_STEP_SIZE_TOO_SMALL: x is not updated, the residual function is not
\* called at x_new, u and v are not changed, and the terminating iteration is
\* not counted in results.iterations.
C21_RelativeStepEndsSolve ==
  /\ [][ShortStep =>
          /\ results'.status = "RELATIVE_STEP_SIZE_TOO_SMALL"
          /\ pc' = "exit"
          /\ x' = x /\ x_new_' = x_new_ /\ f_x_new_' = f_x_new_ /\ calls' = calls
          /\ u' = u /\ v' = v /\ i' = i]_vars
  /\ [][pc = "exit" =>
          /\ pc' = "idle"
          /\ results'.status = "RELATIVE_STEP_SIZE_TOO_SMALL"
          /\ results'.iterations = i
          /\ x' = x /\ calls' = calls]_vars

\* A Solve that ended on a short step after at least one complete iteration.
C21_Witness ==
  /\ Returned
  /\ results.status = "RELATIVE_STEP_SIZE_TOO_SMALL"
  /\ results.iterations >= 1
  /\ x \notin InitialPoints(function)

\* The active slice of the current pass.
SliceStart == pass * Stride
SliceEnd == StdMin((pass + 1) * Stride, SumInts(parameter_block_sizes))

\* C22: in every pass of Evaluate the functor is invoked exactly once, and at
\* that invocation every input jet has the value of the caller's parameter and
\* the derivative vector e_(q - start) when its flat index q lies in the active
\* slice [start, end) and the zero vector otherwise: no seed of an earlier
\* pass survives.
C22_SeedsOfThePass ==
  (want_jacobians /\ epc \in {"seed", "call", "copy", "residuals", "return", "done"}) =>
    /\ epc \in {"seed", "call"} => functor_calls = pass
    /\ epc \in {"copy", "residuals"} => functor_calls = pass + 1
    /\ (epc = "done" /\ ret) => functor_calls = num_strides /\ pass = num_strides
    /\ epc = "call" =>
         \A q \in 0..(SumInts(parameter_block_sizes) - 1) :
           /\ input_jets[q + 1].a = Flatten(parameters)[q + 1]
           /\ Len(input_jets[q + 1].v) = Stride
           /\ \A d \in 0..(Stride - 1) :
                input_jets[q + 1].v[d + 1] =
                  (IF SliceStart <= q /\ q < SliceEnd /\ d = q - SliceStart THEN 1 ELSE 0)

\* The functor is about to be called in a later pass whose slice is shorter
\* than the stride.
C22_Witness ==
  /\ want_jacobians /\ epc = "call" /\ pass >= 1 /\ Stride >= 2
  /\ SliceEnd - SliceStart < Stride
  /\ Len(parameter_block_sizes) >= 2

\* C23: if the functor returns false in pass k, Evaluate returns false at
\* once: the functor is not invoked for any pass after k, nothing is written
\* for pass k, and the caller's residuals buffer has not been written by the
\* call.
C23_FalseAbortsEvaluate ==
  /\ [](EvaluateFailed =>
          /\ functor_calls = pass + 1
          /\ \A be \in JacobianEntries :
               \A n \in 1..Len(jacobian_writes[be[1]][be[2]]) :
                 jacobian_writes[be[1]][be[2]][n] < pass
          /\ \A be \in JacobianEntries :
               PassOf(EntryCursor(be[1], be[2])) >= pass =>
                 jacobians[be[1]][be[2]] = Stale
          /\ \A k \in 1..num_residuals :
               residual_writes[k] = << >> /\ residuals[k] = Stale)
  /\ [][EvaluateFailed => UNCHANGED autodiff]_vars

\* The functor failed in a pass that has passes before it and after it.
C23_Witness == EvaluateFailed /\ pass >= 1 /\ pass + 1 < num_strides

\* operator() of the adapter has returned.
AdapterDone == epc = "done"

\* The flag and the values of the functor on the caller's plain parameters.
PlainCall ==
  Functor([c \in 1..Stride |-> JetOf(parameters[1][c], 0)], num_residuals, 0, slope_limit)

\* C24: with a null jacobian the adapter calls the functor exactly once on
\* plain scalars and returns its flag; with a jacobian it calls the functor
\* exactly once with input i seeded with e_i and on success writes
\* residuals[r] = value of output r and jacobian[c * R + r] = derivative slot c
\* of output r (column-major); if the functor returns false it returns false
\* and writes neither residuals nor jacobian.
C24_AdapterContract ==
  AdapterDone =>
    /\ functor_calls = 1
    /\ ~want_jacobians =>
         /\ ret = PlainCall.ok
         /\ input_jets = << >>
         /\ \A e \in 1..Len(jacobians[1]) : jacobians[1][e] = Stale
    /\ want_jacobians =>
         /\ \A q \in 1..Stride :
              /\ input_jets[q].a = parameters[1][q]
              /\ \A d \in 1..Stride : input_jets[q].v[d] = (IF d = q THEN 1 ELSE 0)
         /\ ret =>
              \A r \in 0..(num_residuals - 1) :
                /\ residuals[r + 1] = output_jets[r + 1].a
                /\ \A c \in 0..(Stride - 1) :
                     jacobians[1][c * num_residuals + r + 1] = output_jets[r + 1].v[c + 1]
         /\ ~ret =>
              /\ \A r \in 1..num_residuals : residuals[r] = Stale
              /\ \A e \in 1..Len(jacobians[1]) : jacobians[1][e] = Stale

\* A successful call with a jacobian that is neither a row nor a column, and
\* whose column-major and row-major layouts differ.
C24_Witness ==
  /\ AdapterDone /\ want_jacobians /\ ret
  /\ num_residuals >= 2 /\ Stride >= 2
  /\ \E r \in 1..num_residuals : \E c \in 1..Stride :
       output_jets[r].v[c] # jacobians[1][(r - 1) * Stride + c]


(***************************************************************************)
(* ParallelFor                                                             *)
(***************************************************************************)
\* ParallelFor has returned to its caller.
ParallelForReturned == caller.pc = "returned"

\* The indices of the loop: [start, end).
Range == arguments.start..(arguments.end - 1)

\* C25: function(j) is never entered for a j outside [start, end), never
\* entered twice for the same j, and when ParallelFor returns it has been
\* entered once for every j of [start, end), whatever num_threads >= 1 is and
\* however the threads interleave.
C25_EveryIndexOnce ==
  /\ DOMAIN invoked \subseteq Range
  /\ \A n \in DOMAIN invoked : invoked[n] = 1
  /\ ParallelForReturned => DOMAIN invoked = Range

\* A thread is between the entry into function(j) and its return.
InFunction(t) == t.pc \in {"in_function", "fast_in_function"}

\* A thread holds a claimed block it has not reported with Finished().
InBlock(t) == t.pc \in {"loop", "in_function", "finish"}

\* C26: when ParallelFor has returned, function has been entered for every j
\* of [start, end) and no thread, caller or worker, is still inside function
\* or inside a claimed block; Finished() has been called at most num_total =
\* min(end - start, num_threads) times, and the only CHECK that can fail is
\* the one on num_threads.
C26_ReturnsAfterAllWork ==
  /\ ParallelForReturned =>
       /\ Range \subseteq DOMAIN invoked
       /\ ~InFunction(caller) /\ ~InBlock(caller)
       /\ \A w \in 1..MaxWorkers : ~InFunction(workers[w]) /\ ~InBlock(workers[w])
  /\ shared_state.made =>
       /\ shared_state.num_total = StdMin(arguments.end - arguments.start,
                                          arguments.num_threads)
       /\ shared_state.num_finished <= shared_state.num_total
       /\ shared_state.num_finished + Cardinality({w \in 1..MaxWorkers : InBlock(workers[w])})
            + (IF InBlock(caller) THEN 1 ELSE 0) = shared_state.i
       /\ shared_state.i <= shared_state.num_total
  /\ check_failed => arguments.num_threads <= 0

\* The calling thread waits in Block() while a worker is inside function.
C26_Witness ==
  /\ caller.pc = "block"
  /\ shared_state.num_finished < shared_state.num_total
  /\ \E w \in 1..MaxWorkers : workers[w].pc = "in_function"

\* Worker w runs a task that finds every block claimed.
LateTask(w) == workers[w].pc = "claim" /\ NoWorkLeft

\* C27: a ParallelFor call with num_threads >= 1 eventually returns, even
\* when the pool never starts a queued task, and a task that starts after
\* every block is claimed ends without entering function and without calling
\* Finished().
C27_NoDeadlock ==
  /\ (arguments.num_threads >= 1) => <>ParallelForReturned
  /\ [][\A w \in 1..MaxWorkers :
          (LateTask(w) /\ workers'[w] # workers[w]) =>
             /\ workers'[w] = Idle
             /\ invoked' = invoked
             /\ shared_state' = shared_state]_vars

\* ParallelFor has returned with every block done by the calling thread: the
\* one task a worker has started finds nothing to claim.
C27_Witness ==
  /\ ParallelForReturned
  /\ shared_state.num_total >= 2
  /\ task_queue + 1 = shared_state.num_total
  /\ \E w \in 1..MaxWorkers :
       /\ LateTask(w)
       /\ \A o \in 1..MaxWorkers : o # w => workers[o] = Idle

(***************************************************************************)
(* OrderedGroups                                                           *)
(***************************************************************************)
\* The elements whose latest call was AddToGroup.
Members == {e \in DOMAIN latest : latest[e].member}

\* GroupSize(-1) + ... + GroupSize(MaxGroup).
SumOfGroupSizes == SumInts([k \in 1..(MaxGroup + 2) |-> GroupSize(k - 2)])

\* C28: after any calls of AddToGroup and Remove, the elements of the object
\* are those whose latest call was AddToGroup, each in the group of that call
\* and in no other; the two maps agree; no stored group is empty;
\* NumElements() is the sum of GroupSize(g) over the group ids and
\* NumGroups() the number of non-empty groups.
C28_MapsAgree ==
  /\ DOMAIN element_to_group_ = Members
  /\ \A e \in Members :
       /\ element_to_group_[e] = latest[e].group
       /\ \A g \in GroupIds :
            (g \in DOMAIN group_to_elements_ /\ e \in group_to_elements_[g])
              <=> g = latest[e].group
  /\ \A g \in DOMAIN group_to_elements_ :
       /\ group_to_elements_[g] # {}
       /\ \A e \in group_to_elements_[g] : IsMember(e) /\ GroupId(e) = g
  /\ NumElements = SumOfGroupSizes
  /\ NumGroups = Cardinality({g \in GroupIds : GroupSize(g) > 0})
  /\ \A e \in Elements : IsMember(e) <=> e \in Members

\* Two elements share a group, a second group is stored, and an element has
\* been removed whose group is no longer stored.
C28_Witness ==
  /\ ~crashed
  /\ NumGroups >= 2
  /\ \E g \in GroupIds : GroupSize(g) >= 2
  /\ \E e \in DOMAIN latest : ~latest[e].member /\ GroupSize(latest[e].group) = 0

(***************************************************************************)
(* TinySolver: what the stored arrays and the returned magnitudes describe *)
(***************************************************************************)
\* Solve is between its first Update and its return.
InSolve == pc \in {"loop", "solved", "rho", "exit"}

\* The residual function at the point in the caller's buffer.
AtX == Eval(function, x, TRUE)

\* error_, jacobian_ and g_ hold -f(x), J(x) and J(x)' * -f(x) for the x in
\* the caller's buffer.
StoredBelongsToX ==
  /\ AtX.ok
  /\ error_ = VecNeg(AtX.residuals)
  /\ jacobian_ = AtX.jacobian
  /\ g_ = TransposeTimesVec(AtX.jacobian, VecNeg(AtX.residuals))

\* C29: while Solve runs, the stored residual, Jacobian and gradient are those
\* of the x in the caller's buffer, and the magnitudes Solve returns are the
\* norms of the residual and of the gradient at that x.
C29_ResultsDescribeX ==
  /\ [](InSolve => StoredBelongsToX)
  /\ [][(pc # "idle" /\ pc' = "idle") =>
          /\ x' = x
          /\ StoredBelongsToX
          /\ results'.error_magnitude = Norm(AtX.residuals)
          /\ results'.gradient_magnitude =
               Norm(TransposeTimesVec(AtX.jacobian, AtX.residuals))]_vars

\* The squared norm of the residual the function returns at the point p.
SquaredResidualNorm(p) == SquaredNorm(Eval(function, p, TRUE).residuals)

\* C30: the residual function has a value at every x Solve puts in the
\* caller's buffer, an accepted step strictly decreases the squared residual
\* norm, and no step of Solve increases it, so that it is no larger at the
\* returned x than at the initial x.
C30_AcceptedStepsDecrease ==
  /\ [][Accepting => /\ Eval(function, x, TRUE).ok /\ Eval(function, x', TRUE).ok
                     /\ Lt(SquaredResidualNorm(x'), SquaredResidualNorm(x))]_vars
  /\ [][SolveStep => (x' = x \/ Lt(SquaredResidualNorm(x'), SquaredResidualNorm(x)))]_vars
====
